---- MODULE Spec2Model ----
(***************************************************************************)
(* A model of the download engine (oma-fetch/src/download.rs) and of the   *)
(* repository refresh (oma-refresh/src/db.rs, oma-refresh/src/inrelease.rs)*)
(* of oma.                                                                 *)
(*                                                                         *)
(* Conventions.                                                            *)
(*  - A byte string is a sequence over Byte.                               *)
(*  - global_progress is the AtomicU64 shared by all plans of one fetch.   *)
(*    It is kept as an integer; a negative value v stands for the wrapped  *)
(*    unsigned value 2^64 + v (fetch_sub wraps around).                    *)
(*  - One action of the fetcher is the code executed by one plan between   *)
(*    two suspension points (.await) of its future.                        *)
(***************************************************************************)
EXTENDS Integers, Sequences, FiniteSets, TLC

\* ------------------------------------------------------------------ bounds
\* number of plans (DownloadEntry) handed to one fetcher
NPlans == 2
\* largest number of candidate sources of one plan
MaxSources == 2
\* largest length of a remote body, of a local source file and of a
\* pre-existing destination file
MaxLen == 1
\* retry_times of the fetcher
RetryTimes == 1

\* largest number of lines of the SHA256 field of a release
MaxTable == 2
\* instants are 0..MaxTime
MaxTime == 2
\* largest number of configured repository entries
NEntries == 2

Plans == 1..NPlans
Byte == {1, 2}

SeqsUpTo(n) == UNION {[1..k -> Byte] : k \in 0..n}
Contents == SeqsUpTo(MaxLen)

\* ---------------------------------------------------------------- checksum
\* SHA-256 as an injective digest of a byte string.
RECURSIVE Digest(_)
Digest(s) == IF s = <<>> THEN 1 ELSE 3 * Digest(SubSeq(s, 1, Len(s) - 1)) + s[Len(s)]

\* the body every plan with a checksum expects
GoodBody == [k \in 1..MaxLen |-> IF k = 1 THEN 1 ELSE 2]

NoneV == [some |-> FALSE, fed |-> <<>>]
SomeV(s) == [some |-> TRUE, fed |-> s]
\* ChecksumValidator::finish
Finish(v, hash) == Digest(v.fed) = hash

\* ------------------------------------------------------------------ plans
SourceTypes == {"Http", "Local"}
\* DownloadSource as download_pkgs builds it: Local iff the url starts with file:
Source(t, n) == [source_type |-> t, url |-> [scheme |-> IF t = "Local" THEN "file" ELSE "http", n |-> n]]
SourceLists == UNION {{[k \in 1..n |-> Source(f[k], k)] : f \in [1..n -> SourceTypes]} : n \in 1..MaxSources}

NoHash == [some |-> FALSE, val |-> 0]
Entries == [source : SourceLists,
            hash : {NoHash, [some |-> TRUE, val |-> Digest(GoodBody)]},
            allow_resume : BOOLEAN]

NoFile == [exists |-> FALSE, data |-> <<>>]
File(d) == [exists |-> TRUE, data |-> d]
Files == {NoFile} \cup {File(d) : d \in Contents}

\* Ord of DownloadSourceType: Local before Http
SourceTypeRank(t) == IF t = "Local" THEN 0 ELSE 1

\* sources.sort_by(|a, b| a.source_type.cmp(&b.source_type)), a stable sort
SortSources(src) ==
    SelectSeq(src, LAMBDA x : SourceTypeRank(x.source_type) = 0)
        \o SelectSeq(src, LAMBDA x : SourceTypeRank(x.source_type) = 1)

\* the arguments start_download gives try_download for the plan at list
\* position p (1-based here): count = index in the list, progress.0 = index + 1
ListCount(p) == p - 1
ProgressCount(p) == p

\* ---------------------------------------------------------------- results
Pending == [ok |-> FALSE, err |-> "pending", wrote |-> FALSE, count |-> 0]
\* Ok(Summary::new(filename, wrote, count, context))
OkSummary(w, c) == [ok |-> TRUE, err |-> "", wrote |-> w, count |-> c]
Err(e) == [ok |-> FALSE, err |-> e, wrote |-> FALSE, count |-> 0]

VARIABLES
    entry,            \* entry[p]: the DownloadEntry of plan p
    file,             \* file[p]: the destination file dir/filename of plan p
    global_progress,  \* the shared AtomicU64
    observed,         \* what a receiver of the events holds: n added on
                      \* GlobalProgressInc(n), v assigned on GlobalProgressSet(v)
    pc,               \* pc[p]: where the future of plan p is suspended
    i,                \* i[p]: loop index of try_download (1-based)
    times,            \* times[p]: retry count of try_http_download
    loc,              \* loc[p]: the locals of http_download
    res,              \* res[p]: what try_download returned
    prev_get,         \* prev_get[p]: a GET request was issued to an earlier
                      \* source of plan p
    src_gets,         \* src_gets[p]: GET requests issued to the current source
    att,              \* att[p]: what the current http_download call did so far
    next_url,         \* next_url[p]: CanNotGetSourceNextUrl events emitted
    nfail,            \* nfail[p]: sources of plan p that ended with an error
    last,             \* last[p]: what the last http_download or download_local
                      \* call of plan p returned
    retries,          \* retries[p]: the counts carried by the
                      \* ChecksumMismatchRetry events of the current source
    exhausted         \* exhausted[p]: a source of plan p used up its retries

fvars == <<entry, file, global_progress, observed, pc, i, times, loc, res, prev_get,
           src_gets, att, next_url, nfail, last, retries, exhausted>>

VARIABLES
    pin,              \* the argument of InReleaseParser::new, and the clock
    pout              \* what InReleaseParser::new returned

pvars == <<pin, pout>>

VARIABLES
    cfg,              \* the entries of sources.list given to update_db
    aosc,             \* cfg!(feature = "aosc")
    arch,             \* the architecture given to update_db
    upc,              \* where update_db is
    pending,          \* the Stage-1 tasks that did not end yet
    fetched,          \* res: the results of Stage 1, in completion order
    scan_at,          \* index in fetched of the result the loop looks at
    res_2,            \* the Summaries kept for Stage 2
    absorbed,         \* entries whose 404 was that of a closed topic
    stage_at,         \* index in res_2 of the Summary Stage 2 works on
    left,             \* index downloads of the entry that did not end yet
    berr,             \* an index download of the entry ended with an error
    issued,           \* issued[n]: index downloads started for entry n
    parsed,           \* entries whose release file Stage 2 has parsed
    s1issued,         \* release downloads given to the fetcher
    result            \* what update_db returned

rvars == <<cfg, aosc, arch, upc, pending, fetched, scan_at, res_2, absorbed, stage_at, left,
           berr, issued, parsed, s1issued, result>>

VARIABLES
    limit,            \* the limit given to update_db
    queued,           \* tasks of the batch the stream has not started yet
    inflight,         \* tasks of the batch that are running
    ended,            \* tasks of the batch that returned
    collected         \* the collect of the stream returned

bvars == <<limit, queued, inflight, ended, collected>>

VARIABLES
    xplan,            \* a plan with an extract flag and the file its url names
    xrest,            \* the bytes of the body that were not received yet
    xraw,             \* the bytes given to the writer so far
    xfed,             \* the bytes given to the validator so far
    xpc,              \* where the transfer is
    xres              \* what http_download returned

xvars == <<xplan, xrest, xraw, xfed, xpc, xres>>

VARIABLES
    url_a,            \* a url given to FileName::new
    url_b,            \* another url given to FileName::new
    name_a,           \* what FileName::new returned for url_a
    name_b            \* what FileName::new returned for url_b

nvars == <<url_a, url_b, name_a, name_b>>

VARIABLES
    g_counter,        \* the AtomicU64 the plans of a batch share
    g_prog,           \* g_prog[p]: the mutations plan p has still to make
    g_net,            \* g_net[p]: the sum of the changes plan p has made
    g_reg,            \* g_reg[p]: the value plan p loaded and has not stored yet
    g_last,           \* the plan that ran last
    g_switch          \* how often another plan than the last one ran

gvars == <<g_counter, g_prog, g_net, g_reg, g_last, g_switch>>

VARIABLES
    d_in,             \* a date string given to date_hack and parse_date
    d_hack,           \* what date_hack returned for it
    d_parsed          \* what parse_date returned for it

dvars == <<d_in, d_hack, d_parsed>>

VARIABLES
    dry_run,          \* self.dry_run of the OmaApt that commit consumes
    pkg_list,         \* the number of packages in v.install
    cpc,              \* where commit is
    success,          \* the plans of download_pkgs that ended with Ok
    failed,           \* the errors of the plans that ended with Err
    apt,              \* the apt lock: held, its inner lock, and whether it
                      \* was released while not held
    commit_res,       \* what commit returned
    calls             \* what commit has called so far, in order

avars == <<dry_run, pkg_list, cpc, success, failed, apt, commit_res, calls>>

\* the variables of the small models
ovars == <<bvars, xvars, nvars, gvars, dvars, avars>>

vars == <<fvars, pvars, rvars, ovars>>

LocInit == [file_size |-> 0, readed |-> 0, validator |-> NoneV, dest |-> FALSE,
            can_resume |-> FALSE, self_progress |-> 0,
            range |-> -1, total_size |-> 0]
AttInit == [heads |-> 0, gets |-> 0, dones |-> 0, hit |-> FALSE, added |-> 0,
            inc |-> 0, np |-> FALSE, early_inc |-> FALSE, last_ev |-> "none"]

\* the state of plan p and the counter, as one record
Cur(p) == [pc |-> pc[p], i |-> i[p], times |-> times[p], loc |-> loc[p],
           res |-> res[p], file |-> file[p], prev_get |-> prev_get[p],
           src_gets |-> src_gets[p], att |-> att[p], next_url |-> next_url[p],
           nfail |-> nfail[p], last |-> last[p], retries |-> retries[p],
           exhausted |-> exhausted[p],
           gp |-> global_progress, obs |-> observed]

Commit(p, n) ==
    /\ pc' = [pc EXCEPT ![p] = n.pc]
    /\ i' = [i EXCEPT ![p] = n.i]
    /\ times' = [times EXCEPT ![p] = n.times]
    /\ loc' = [loc EXCEPT ![p] = n.loc]
    /\ res' = [res EXCEPT ![p] = n.res]
    /\ file' = [file EXCEPT ![p] = n.file]
    /\ prev_get' = [prev_get EXCEPT ![p] = n.prev_get]
    /\ src_gets' = [src_gets EXCEPT ![p] = n.src_gets]
    /\ att' = [att EXCEPT ![p] = n.att]
    /\ next_url' = [next_url EXCEPT ![p] = n.next_url]
    /\ nfail' = [nfail EXCEPT ![p] = n.nfail]
    /\ last' = [last EXCEPT ![p] = n.last]
    /\ retries' = [retries EXCEPT ![p] = n.retries]
    /\ exhausted' = [exhausted EXCEPT ![p] = n.exhausted]
    /\ global_progress' = n.gp
    /\ observed' = n.obs
    /\ UNCHANGED <<entry, pvars, rvars, ovars>>

\* ------------------------------------------------------------ try_download
\* http_download, lines 153-190: look at the destination file; when it exists
\* and the plan has a checksum, open it and create the validator. The call
\* suspends for the first time at the open of the file or at the HEAD request.
HttpOpen(s, e) ==
    LET file_size == IF s.file.exists THEN Len(s.file.data) ELSE 0
        checks == s.file.exists /\ e.hash.some
        a == [AttInit EXCEPT !.hit = checks /\ Digest(s.file.data) = e.hash.val]
    IN  [s EXCEPT !.att = a,
                  !.loc = [LocInit EXCEPT !.file_size = file_size,
                                          !.validator = IF checks THEN SomeV(<<>>) ELSE NoneV],
                  !.pc = IF checks THEN "check" ELSE "head"]

\* Dispatch that keeps the retry count of the source before
Dispatch_KeepTimes(s, e, idx) ==
    LET s1 == [s EXCEPT !.i = idx, !.src_gets = 0, !.loc = LocInit,
                        !.att = AttInit, !.last = Pending, !.retries = <<>>,
                        !.prev_get = @ \/ s.src_gets > 0]
    IN  IF SortSources(e.source)[idx].source_type = "Http"
        THEN HttpOpen(s1, e)
        ELSE [s1 EXCEPT !.pc = "local_begin"]

\* the match on c.source_type for the idx-th sorted source
Dispatch(s, e, idx) ==
    LET s1 == [s EXCEPT !.i = idx, !.times = 0, !.src_gets = 0, !.loc = LocInit,
                        !.att = AttInit, !.last = Pending, !.retries = <<>>,
                        !.prev_get = @ \/ s.src_gets > 0]
    IN  IF SortSources(e.source)[idx].source_type = "Http"
        THEN HttpOpen(s1, e)
        ELSE [s1 EXCEPT !.pc = "local_begin"]

\* TryDownloadMatch with the fallback left out: the first Err is returned
TryDownloadMatch_NoFallback(s, e, r) ==
    [s EXCEPT !.pc = "done", !.res = r]

\* match download_res: the first Ok ends the loop, an Err of the last source
\* is returned, any other Err emits CanNotGetSourceNextUrl and goes on
TryDownloadMatch(s, e, r) ==
    IF r.ok THEN [s EXCEPT !.pc = "done", !.res = r]
    ELSE IF s.i = Len(SortSources(e.source))
         THEN [s EXCEPT !.pc = "done", !.res = r]
         ELSE Dispatch([s EXCEPT !.next_url = @ + 1], e, s.i + 1)

\* try_http_download or download_local gives r back to try_download; the
\* locals of the call are gone
SourceReturn(s, e, r) ==
    TryDownloadMatch([s EXCEPT !.nfail = IF r.ok THEN @ ELSE @ + 1,
                               !.loc = LocInit], e, r)

\* TryHttpMatch retrying after every error
TryHttpMatch_RetryAny(s, e, r) ==
    IF r.ok THEN SourceReturn(s, e, r)
    ELSE IF RetryTimes = s.times
         THEN SourceReturn(s, e, r)
         ELSE HttpOpen([s EXCEPT !.times = @ + 1,
                                 !.retries = Append(@, s.times)], e)

\* try_http_download: only ChecksumMisMatch is retried, retry_times times;
\* ChecksumMismatchRetry carries times before it is incremented
TryHttpMatch(s, e, r) ==
    IF r.ok THEN SourceReturn(s, e, r)
    ELSE IF r.err = "ChecksumMisMatch"
         THEN IF RetryTimes = s.times
              THEN SourceReturn([s EXCEPT !.exhausted = TRUE], e, r)
              ELSE HttpOpen([s EXCEPT !.times = @ + 1,
                                      !.retries = Append(@, s.times)], e)
         ELSE SourceReturn(s, e, r)

\* http_download gives r back to try_http_download
HttpReturn(s, e, r) == TryHttpMatch([s EXCEPT !.last = r], e, r)

\* download_local gives r back to try_download
LocalReturn(s, e, r) == SourceReturn([s EXCEPT !.last = r], e, r)

\* the url http_download and download_local read: entry.source[position],
\* position being the index in the sorted list
PositionUrl(s, e) == e.source[s.i].url

\* ----------------------------------------------------------- http_download
\* CheckFinish that never keeps the validator of the check
CheckFinish_FreshValidator(s, e, p) ==
    IF Finish(s.loc.validator, e.hash.val)
    THEN HttpReturn([s EXCEPT !.att.dones = @ + 1,
                              !.att.last_ev = "ProgressDone"], e,
                      OkSummary(FALSE, ListCount(p)))
    ELSE IF ~e.allow_resume
         THEN [s EXCEPT !.gp = (@ - s.loc.readed) - s.loc.readed,
                        !.obs = s.gp - s.loc.readed,
                        !.att.added = (@ - s.loc.readed) - s.loc.readed,
                        !.att.last_ev = "GlobalProgressSet",
                        !.loc.validator = NoneV,
                        !.pc = "head"]
         ELSE [s EXCEPT !.loc.dest = TRUE, !.loc.validator = NoneV, !.pc = "head"]

\* CheckFinish that goes on to the transfer although the checksum matched
CheckFinish_NoHit(s, e, p) ==
    IF ~e.allow_resume
    THEN [s EXCEPT !.gp = (@ - s.loc.readed) - s.loc.readed,
                   !.obs = s.gp - s.loc.readed,
                   !.att.added = (@ - s.loc.readed) - s.loc.readed,
                   !.loc.validator = NoneV,
                   !.pc = "head"]
    ELSE [s EXCEPT !.loc.dest = TRUE, !.pc = "head"]

\* lines 206-231: the check of the existing file is over
CheckFinish(s, e, p) ==
    IF Finish(s.loc.validator, e.hash.val)
    THEN HttpReturn([s EXCEPT !.att.dones = @ + 1,
                              !.att.last_ev = "ProgressDone"], e,
                      OkSummary(FALSE, ListCount(p)))
    ELSE IF ~e.allow_resume
         THEN \* fetch_sub(readed) twice, then GlobalProgressSet
              [s EXCEPT !.gp = (@ - s.loc.readed) - s.loc.readed,
                        !.obs = s.gp - s.loc.readed,
                        !.att.added = (@ - s.loc.readed) - s.loc.readed,
                        !.att.last_ev = "GlobalProgressSet",
                        !.loc.validator = NoneV,
                        !.pc = "head"]
         ELSE [s EXCEPT !.loc.dest = TRUE, !.pc = "head"]

\* lines 191-204: one f.read of n bytes, fed to the validator and added to
\* the counter; the loop ends, without suspending, when readed == file_size
CheckRead(s, e, p, n) ==
    LET chunk == SubSeq(s.file.data, s.loc.readed + 1, s.loc.readed + n)
        s1 == [s EXCEPT !.loc.validator.fed = @ \o chunk,
                        !.loc.readed = @ + n,
                        !.gp = @ + n,
                        !.obs = @ + n,
                        !.att.added = @ + n,
                        !.att.last_ev = "GlobalProgressInc"]
    IN  IF s1.loc.readed = s1.loc.file_size THEN CheckFinish(s1, e, p) ELSE s1

\* the reset of line 276 only for a file longer than the remote one
ResetFileSize_Longer(total_size, file_size) == total_size < file_size

\* line 276: the file is not shorter than the remote one
ResetFileSize(total_size, file_size) == total_size <= file_size

\* lines 237-289: the HEAD request and its answer hd, the resume decision,
\* and the GET request that is sent
HeadRequest(s, e, hd) ==
    LET s1 == [s EXCEPT !.att.heads = @ + 1,
                        !.att.last_ev = "NewProgressSpinner"]
    IN  IF hd.err THEN HttpReturn(s1, e, Err("Reqwest"))
        ELSE LET resume == hd.ranges /\ e.allow_resume
                 disable == resume /\ ResetFileSize(hd.len, s.loc.file_size)
                 file_size == IF disable THEN 0 ELSE s.loc.file_size
             IN  [s1 EXCEPT !.loc.can_resume = hd.ranges /\ ~disable,
                            !.loc.file_size = file_size,
                            !.loc.range = IF resume THEN file_size ELSE -1,
                            !.loc.total_size = hd.len,
                            !.gp = IF disable THEN @ - s.loc.file_size ELSE @,
                            !.obs = IF disable THEN s.gp - s.loc.file_size ELSE @,
                            !.att.added = IF disable THEN @ - s.loc.file_size ELSE @,
                            !.att.last_ev = IF disable THEN "GlobalProgressSet" ELSE @,
                            !.att.gets = @ + 1,
                            !.src_gets = @ + 1,
                            !.pc = "get"]

\* lines 293-369: the answer to the GET request; on success the validator
\* is chosen and the destination is opened, truncated unless resuming.
\* can_resume, readed and total_size are not read by the model after
\* line 330: they leave the state here.
Get(s, e, rsp) ==
    IF rsp = "senderr" THEN HttpReturn(s, e, Err("Reqwest"))
    ELSE IF rsp = "404"
    THEN HttpReturn([s EXCEPT !.att.dones = @ + 1,
                              !.att.last_ev = "ProgressDone"], e, Err("NotFound"))
    ELSE IF rsp = "500"
    THEN HttpReturn([s EXCEPT !.att.dones = @ + 1,
                              !.att.last_ev = "ProgressDone"], e, Err("Reqwest"))
    ELSE \* ProgressDone, NewProgress, and ProgressInc(file_size) when the
         \* validator of the check is kept
         [s EXCEPT !.att.dones = @ + 1,
                   !.att.np = TRUE,
                   !.att.inc = IF s.loc.validator.some THEN @ + s.loc.file_size ELSE @,
                   !.att.last_ev = IF s.loc.validator.some THEN "ProgressInc"
                                   ELSE "NewProgress",
                   !.loc.validator = IF @.some THEN @
                                     ELSE IF e.hash.some THEN SomeV(<<>>) ELSE NoneV,
                   !.file = IF ~e.allow_resume \/ ~s.loc.can_resume
                            THEN File(<<>>) ELSE File(@.data),
                   !.loc.can_resume = FALSE,
                   !.loc.readed = 0, !.loc.range = -1, !.loc.total_size = 0,
                   !.pc = "body"]

\* lines 384-401: one chunk of the body
Body(s, e, chunk) ==
    [s EXCEPT !.file.data = @ \o chunk,
              !.loc.self_progress = @ + Len(chunk),
              !.gp = @ + Len(chunk),
              !.obs = @ + Len(chunk),
              !.att.added = @ + Len(chunk),
              !.att.inc = @ + Len(chunk),
              !.att.early_inc = @ \/ ~s.att.np,
              !.att.last_ev = "GlobalProgressInc",
              !.loc.validator.fed = IF s.loc.validator.some THEN @ \o chunk ELSE @]

\* line 384: source.chunk() fails
BodyErr(s, e) == HttpReturn(s, e, Err("Reqwest"))

\* lines 405-435: end of the body, the final check
BodyEnd(s, e, p) ==
    IF s.loc.validator.some /\ ~Finish(s.loc.validator, e.hash.val)
    THEN HttpReturn([s EXCEPT !.gp = @ - s.loc.self_progress,
                              !.obs = s.gp - s.loc.self_progress,
                                !.att.added = @ - s.loc.self_progress,
                                !.att.last_ev = "GlobalProgressSet"],
                      e, Err("ChecksumMisMatch"))
    ELSE HttpReturn([s EXCEPT !.att.dones = @ + 1,
                              !.att.last_ev = "ProgressDone"], e,
                      OkSummary(TRUE, ListCount(p)))

\* ---------------------------------------------------------- download_local
\* lines 455-475: the url is parsed, the source file opened, the destination
\* created (and so truncated)
LocalOpen(s, e, opened) ==
    LET s1 == [s EXCEPT !.att.last_ev = "NewProgressSpinner"]
    IN  IF PositionUrl(s, e).scheme # "file" THEN LocalReturn(s1, e, Err("InvaildURL"))
        ELSE IF ~opened THEN LocalReturn(s1, e, Err("FailedOpenLocalSourceFile"))
        ELSE [s1 EXCEPT !.file = File(<<>>), !.pc = "local_copy"]

\* lines 482-495: the copy of the source file, data being its content;
\* ProgressDone, then GlobalProgressInc(size)
LocalCopy(s, e, p, data, copied) ==
    IF ~copied THEN LocalReturn(s, e, Err("FailedOpenLocalSourceFile"))
    ELSE LocalReturn([s EXCEPT !.file = File(data),
                                    !.gp = @ + Len(data),
                                    !.obs = @ + Len(data),
                                    !.att.added = @ + Len(data),
                                    !.att.dones = @ + 1,
                                    !.att.last_ev = "GlobalProgressInc"],
                          e, OkSummary(TRUE, ProgressCount(p)))

\* ========================================================= InReleaseParser
\* A path of the checksum table, by what the parser asks of it: its first
\* component ("" when the path has no '/'), its second component, whether it
\* contains the architecture or "all", which of the words BinContents,
\* Contents-, Packages and Release it contains, what follows its first '.'
\* ("" when it has none), whether it contains "udeb".
PathOf(first, second, has_arch, stem, ext) ==
    [first |-> first, second |-> second, has_arch |-> has_arch, marks |-> {stem},
     ext |-> ext, udeb |-> FALSE]

Paths == {PathOf("main", "binary-amd64", TRUE, "Packages", "xz"),
          PathOf("main", "binary-amd64", TRUE, "Packages", ""),
          PathOf("main", "Contents-amd64", TRUE, "Contents-", "gz"),
          PathOf("main", "binary-amd64", TRUE, "Release", ""),
          PathOf("extra", "binary-amd64", TRUE, "Packages", "xz"),
          PathOf("main", "debian-installer", TRUE, "Packages", "xz"),
          PathOf("", "", FALSE, "Packages", "")}

\* a line of the SHA256 field: its number of tokens, its path, whether its
\* size is a number
ChecksumLine(n) == [ntok |-> 3, name |-> n, size_ok |-> TRUE]
ShortLine == [ntok |-> 1, name |-> PathOf("", "", FALSE, "other", ""), size_ok |-> TRUE]
\* a line without any token
EmptyLine == [ntok |-> 0, name |-> PathOf("", "", FALSE, "other", ""), size_ok |-> TRUE]
Lines == {ChecksumLine(n) : n \in Paths} \cup {ShortLine}
Tables == UNION {[1..k -> Lines] : k \in 0..MaxTable}

\* a field of the first paragraph holding a date
NoField == [present |-> FALSE, parsable |-> FALSE, t |-> 0]
BadDate == [present |-> TRUE, parsable |-> FALSE, t |-> 0]
DateAt(t) == [present |-> TRUE, parsable |-> TRUE, t |-> t]
DateFields == {NoField, BadDate} \cup {DateAt(t) : t \in 0..MaxTime}

\* the release file: whether it starts with the clear-sign header, what
\* verify::verify answers for it, and the fields of the text that is parsed
Signings == {[signed |-> FALSE, verify |-> "none"]}
               \cup {[signed |-> TRUE, verify |-> v] :
                        v \in {"ok", "UntrustedKey", "BadSignature"}}
\* the SHA256 field, by the lines of its value: the first one is what
\* follows the field name on its own line
NoSha == [present |-> FALSE, lines |-> <<>>]
Sha(t) == [present |-> TRUE, lines |-> <<EmptyLine>> \o t]
Docs == [sig : Signings, syntax_ok : BOOLEAN, date : DateFields,
         valid_until : DateFields, sha256 : {NoSha} \cup {Sha(t) : t \in Tables}]

ParseErr(e) == [ok |-> FALSE, err |-> e, checksums |-> <<>>]
ParseOk(c) == [ok |-> TRUE, err |-> "", checksums |-> c]
NotParsed == [ok |-> FALSE, err |-> "not run", checksums |-> <<>>]

\* parse_date
ParseDate(f) == [ok |-> f.parsable, t |-> f.t]

\* file_is_compress
file_is_compress(n) == n.ext \in {"gz", "bz2", "xz"}

\* lines 161-185: the filter on the checksum entries
KeepEntry(n, components) ==
    IF n.first # ""
    THEN n.first \in components /\ n.has_arch /\ n.second # "debian-installer"
    ELSE n.has_arch

\* lines 190-207: the kind of a checksum entry, "skip" for an unknown one
DistFileType(n) ==
    IF "BinContents" \in n.marks THEN "BinaryContents"
    ELSE IF "Contents-" \in n.marks /\ file_is_compress(n) /\ ~n.udeb THEN "CompressContents"
    ELSE IF "Contents-" \in n.marks /\ n.ext = "" /\ ~n.udeb THEN "Contents"
    ELSE IF "Packages" \in n.marks /\ n.ext = "" THEN "PackageList"
    ELSE IF "Packages" \in n.marks /\ file_is_compress(n) THEN "CompressPackageList"
    ELSE IF "Release" \in n.marks THEN "Release"
    ELSE "skip"

\* lines 193 and 200: the String of a compressed kind is a part of the
\* path x split at its first '.': part 0 is what precedes the '.', part 1
\* what follows it. The code takes x.split_once('.').unwrap().0
NoValue == [some |-> FALSE, part |-> 0]
CompressValue(n) ==
    IF DistFileType(n) \in {"CompressContents", "CompressPackageList"}
    THEN [some |-> TRUE, part |-> 0]
    ELSE NoValue

ChecksumItem(l) == [name |-> l.name, file_type |-> DistFileType(l.name),
                    value |-> CompressValue(l.name)]

\* lines 131-224: the checksum table of the parsed text
ParseChecksums(doc, components) ==
    IF ~doc.sha256.present THEN ParseErr("BadSha256Value")
    ELSE LET ls == Tail(doc.sha256.lines)   \* checksums.next()
         IN  IF \E k \in 1..Len(ls) : ls[k].ntok < 3 THEN ParseErr("BadChecksumEntry")
             ELSE LET c == SelectSeq(ls, LAMBDA l : KeepEntry(l.name, components))
                      c2 == IF c = <<>> THEN ls ELSE c
                      known == SelectSeq(c2, LAMBDA l : DistFileType(l.name) # "skip")
                  IN  IF \E k \in 1..Len(known) : ~known[k].size_ok
                      THEN ParseErr("ParseIntError")
                      ELSE ParseOk([k \in 1..Len(known) |-> ChecksumItem(known[k])])

\* Freshness with both bounds exclusive
Freshness_Exclusive(doc, now) ==
    IF ~doc.date.present \/ ~doc.date.parsable THEN "BadInReleaseData"
    ELSE IF now <= doc.date.t THEN "EarlierSignature"
    ELSE IF ~doc.valid_until.present THEN "fresh"
    ELSE IF ~doc.valid_until.parsable THEN "BadInReleaseVaildUntil"
    ELSE IF now >= doc.valid_until.t THEN "ExpiredSignature"
    ELSE "fresh"

\* Freshness that parses Valid-Until before it compares Date with now
Freshness_ValidUntilFirst(doc, now) ==
    IF ~doc.date.present \/ ~ParseDate(doc.date).ok THEN "BadInReleaseData"
    ELSE IF doc.valid_until.present /\ ~ParseDate(doc.valid_until).ok
         THEN "BadInReleaseVaildUntil"
    ELSE IF now < ParseDate(doc.date).t THEN "EarlierSignature"
    ELSE IF ~doc.valid_until.present THEN "fresh"
    ELSE IF now > ParseDate(doc.valid_until).t THEN "ExpiredSignature"
    ELSE "fresh"

\* lines 94-129: the dates of a release of a non-flat repository
Freshness(doc, now) ==
    IF ~doc.date.present \/ ~ParseDate(doc.date).ok THEN "BadInReleaseData"
    ELSE IF now < ParseDate(doc.date).t THEN "EarlierSignature"
    ELSE IF ~doc.valid_until.present THEN "fresh"
    ELSE IF ~ParseDate(doc.valid_until).ok THEN "BadInReleaseVaildUntil"
    ELSE IF now > ParseDate(doc.valid_until).t THEN "ExpiredSignature"
    ELSE "fresh"

\* Verified that takes the payload of a clear-signed file whatever the
\* verification answers
Verified_Unchecked(doc) ==
    IF doc.sig.signed THEN "payload" ELSE "raw"

\* lines 82-86: the text that is parsed is what verify::verify returns for a
\* clear-signed file, and the file itself otherwise
Verified(doc) ==
    IF doc.sig.signed
    THEN (IF doc.sig.verify = "ok" THEN "payload" ELSE doc.sig.verify)
    ELSE "raw"

\* InReleaseParser::new
InReleaseParserNew(in) ==
    IF Verified(in.doc) \notin {"payload", "raw"} THEN ParseErr(Verified(in.doc))
    ELSE IF ~in.doc.syntax_ok THEN ParseErr("InReleaseSyntaxError")
    ELSE IF ~in.is_flat /\ Freshness(in.doc, in.now) # "fresh"
         THEN ParseErr(Freshness(in.doc, in.now))
    ELSE ParseChecksums(in.doc, in.components)

ParserInputs == [doc : Docs, is_flat : BOOLEAN, now : 0..MaxTime,
                 components : {{"main"}}]

ParseInitWith(inputs) ==
    /\ pin \in inputs
    /\ pout = NotParsed

ParseInit == ParseInitWith(ParserInputs)

\* the parser before it was given a file
IdleInput == [doc |-> [sig |-> [signed |-> FALSE, verify |-> "none"],
                       syntax_ok |-> TRUE, date |-> NoField,
                       valid_until |-> NoField, sha256 |-> NoSha],
              is_flat |-> FALSE, now |-> 0, components |-> {"main"}]

ParseIdle ==
    /\ pin = IdleInput
    /\ pout = NotParsed

ParseStep ==
    /\ pout = NotParsed
    /\ pout' = InReleaseParserNew(pin)
    /\ UNCHANGED <<pin, fvars, rvars, ovars>>

\* ---------------------------------------------- the checksum table alone
\* The parser on releases that pass every test before the SHA256 field, with
\* tables over a wider choice of lines: paths without '/', paths that contain
\* two of the words, a path with "udeb", a path with a '.' and no compression
\* suffix, lines of zero and of two tokens, a size that is not a number, and
\* an entry on the line of the field name.
TablePaths ==
    {PathOf("main", "binary-amd64", TRUE, "Packages", "xz"),
     PathOf("main", "binary-amd64", TRUE, "Packages", ""),
     PathOf("main", "binary-amd64", TRUE, "Packages", "diff"),
     PathOf("main", "binary-amd64", TRUE, "Release", ""),
     PathOf("main", "Contents-amd64", TRUE, "Contents-", ""),
     PathOf("main", "i18n", TRUE, "other", "bz2"),
     PathOf("extra", "binary-amd64", TRUE, "Packages", "xz"),
     PathOf("main", "debian-installer", TRUE, "Packages", "xz"),
     PathOf("", "", TRUE, "Contents-", "gz"),
     PathOf("", "", FALSE, "Packages", ""),
     [PathOf("main", "BinContents-amd64", TRUE, "BinContents", "bz2")
         EXCEPT !.marks = {"BinContents", "Contents-"}],
     [PathOf("main", "Contents-udeb-amd64", TRUE, "Contents-", "gz")
         EXCEPT !.udeb = TRUE],
     [PathOf("main", "Release-Packages", TRUE, "Packages", "")
         EXCEPT !.marks = {"Packages", "Release"}]}

TwoTokenLine == [ntok |-> 2, name |-> PathOf("", "", FALSE, "other", ""), size_ok |-> TRUE]
BadSizeLine == [ntok |-> 3, name |-> PathOf("main", "binary-amd64", TRUE, "Packages", "xz"),
                size_ok |-> FALSE]
TableLines == {ChecksumLine(n) : n \in TablePaths}
                 \cup {EmptyLine, ShortLine, TwoTokenLine, BadSizeLine}
FirstLines == {EmptyLine, ChecksumLine(PathOf("main", "binary-amd64", TRUE, "Packages", ""))}
TableValues ==
    {<<f>> \o ls : f \in FirstLines,
                   ls \in UNION {[1..k -> TableLines] : k \in 0..MaxTable}}
TableInputs ==
    [doc : [sig : {[signed |-> FALSE, verify |-> "none"]}, syntax_ok : {TRUE},
            date : {DateAt(0)}, valid_until : {NoField},
            sha256 : {NoSha} \cup {[present |-> TRUE, lines |-> v] : v \in TableValues}],
     is_flat : {FALSE}, now : {0}, components : {{"main"}}]

\* ================================================================ update_db
\* update_db runs alone; its actions are the iterations of its loops and the
\* completions of the downloads it waits for.

\* A SourceEntry of sources.list, by what update_db asks of it: the protocol
\* of its url, its components, its suite.
Protocols == {"http", "file", "cdrom"}
Normal(proto) == [proto |-> proto, components |-> {"main"}, suite |-> "stable"]
Flat(proto) == [proto |-> proto, components |-> {}, suite |-> "/"]
NoComponents(proto) == [proto |-> proto, components |-> {}, suite |-> "stable"]
SourceEntries == UNION {{Normal(t), Flat(t), NoComponents(t)} : t \in Protocols}
Configs == UNION {[1..n -> SourceEntries] : n \in 0..NEntries}

\* a sources.list of one entry, of any protocol, with or without components,
\* with any suite
SlashSuite(proto) == [proto |-> proto, components |-> {"main"}, suite |-> "/"]
OneEntryConfigs ==
    {<<e>> : e \in UNION {{Normal(t), Flat(t), NoComponents(t), SlashSuite(t)} :
                              t \in Protocols \cup {"https"}}}

Archs == {"amd64", "mips64r6el"}

\* what OmaSourceEntry::new returns for an entry it refuses
NotBuilt == [ok |-> FALSE, from |-> "", is_flat |-> FALSE, components |-> {},
             inrelease_path |-> [base |-> "", file |-> ""]]

\* OmaSourceEntry::new where an entry without components is flat whatever
\* its suite is
OmaSourceEntryNew_FlatByComponents(v) ==
    LET is_flat == v.components = {}
        from == IF v.proto \in {"http", "https"} THEN "Http" ELSE "Local"
    IN  IF v.proto \notin {"http", "https", "file"} THEN NotBuilt
        ELSE [ok |-> TRUE, from |-> from, is_flat |-> is_flat,
              components |-> v.components,
              inrelease_path |-> IF is_flat THEN [base |-> "url", file |-> "Release"]
                                 ELSE [base |-> "dist_path", file |-> "InRelease"]]

\* OmaSourceEntry::new, lines 153-200: the release file is {url}/Release of
\* a flat entry and {dist_path}/InRelease of an entry with components
OmaSourceEntryNew(v) ==
    LET is_flat == v.components = {} /\ v.suite = "/"
        from == IF v.proto \in {"http", "https"} THEN "Http" ELSE "Local"
    IN  IF v.proto \notin {"http", "https", "file"} THEN NotBuilt
        ELSE IF is_flat
        THEN [ok |-> TRUE, from |-> from, is_flat |-> TRUE,
              components |-> v.components,
              inrelease_path |-> [base |-> "url", file |-> "Release"]]
        ELSE IF v.components # {}
        THEN [ok |-> TRUE, from |-> from, is_flat |-> FALSE,
              components |-> v.components,
              inrelease_path |-> [base |-> "dist_path", file |-> "InRelease"]]
        ELSE NotBuilt

\* hr_sources: the entries in order, or the first error
hr_sources(c) ==
    IF \E n \in 1..Len(c) : ~OmaSourceEntryNew(c[n]).ok
    THEN [ok |-> FALSE, sources |-> <<>>]
    ELSE [ok |-> TRUE, sources |-> [n \in 1..Len(c) |-> OmaSourceEntryNew(c[n])]]

\* lines 228-255: the task of every entry is typed Http, whatever c.from is.
\* What try_download returns for such a plan (one Http source, no checksum,
\* no resume): a Summary carrying the index of the plan, NotFound, or
\* another error; a file: url is refused by the HTTP client.
ReleaseOk(n) == [ok |-> TRUE, err |-> "", task |-> n, count |-> ListCount(n)]
ReleaseErr(n, e) == [ok |-> FALSE, err |-> e, task |-> n, count |-> 0]
ReleaseOutcomes(v, n) ==
    IF v.proto \in {"http", "https"}
    THEN {ReleaseOk(n), ReleaseErr(n, "NotFound"), ReleaseErr(n, "Reqwest")}
    ELSE {ReleaseErr(n, "Reqwest")}

\* ScanResult without the lookup of the closed topics
ScanResult_NoLookup(r, with_aosc) ==
    IF r.ok THEN "push" ELSE "return"

\* ScanResult that drops a failed result and goes on
ScanResult_Skip(r, with_aosc) ==
    IF r.ok THEN "push" ELSE "skip"

\* lines 263-296: what the loop over the results of Stage 1 does with one
\* result: keep it for Stage 2, ask for the closed topics, or return
ScanResult(r, with_aosc) ==
    IF with_aosc
    THEN IF r.ok THEN "push"
         ELSE IF r.err = "NotFound" THEN "lookup" ELSE "return"
    ELSE IF r.ok THEN "push" ELSE "return"

\* Handle that takes the compressed and the uncompressed indexes whatever
\* the architecture is
Handle_AllKinds(ose, checksums, with_arch) ==
    LET mine == SelectSeq(checksums,
                    LAMBDA x : x.name.first # "" /\ x.name.first \in ose.components)
    IN  IF ose.is_flat
        THEN SelectSeq(checksums, LAMBDA x : x.file_type = "PackageList")
        ELSE SelectSeq(mine, LAMBDA x : x.file_type # "Release")

\* lines 311-367: the indexes of the entry that are downloaded
Handle(ose, checksums, with_arch) ==
    LET mine == SelectSeq(checksums,
                    LAMBDA x : x.name.first # "" /\ x.name.first \in ose.components)
    IN  IF ose.is_flat
        THEN SelectSeq(checksums, LAMBDA x : x.file_type = "PackageList")
        ELSE SelectSeq(mine, LAMBDA x :
                \/ x.file_type = "BinaryContents"
                \/ /\ x.file_type \in {"Contents", "PackageList"}
                   /\ with_arch = "mips64r6el"
                \/ /\ x.file_type \in {"CompressContents", "CompressPackageList"}
                   /\ with_arch # "mips64r6el")

\* lines 379-387: the destination of the plan of a selected index: its path
\* with the extension taken off (set_extension(""))
NotCompressFilename(n) == [n EXCEPT !.ext = ""]

\* the release files a repository may serve: the table lists the package
\* list under two compression suffixes and uncompressed, the contents, the
\* binary contents, a Release, the package list of another component and a
\* package list without directory
SampleTable == <<ChecksumLine(PathOf("main", "binary-amd64", TRUE, "Packages", "xz")),
                 ChecksumLine(PathOf("main", "binary-amd64", TRUE, "Packages", "gz")),
                 ChecksumLine(PathOf("main", "binary-amd64", TRUE, "Packages", "")),
                 ChecksumLine(PathOf("main", "Contents-amd64", TRUE, "Contents-", "gz")),
                 ChecksumLine(PathOf("main", "BinContents-amd64", TRUE, "BinContents", "")),
                 ChecksumLine(PathOf("main", "binary-amd64", TRUE, "Release", "")),
                 ChecksumLine(PathOf("extra", "binary-amd64", TRUE, "Packages", "xz")),
                 ChecksumLine(PathOf("", "", FALSE, "Packages", ""))>>
RefreshDocs == [sig : Signings, syntax_ok : BOOLEAN, date : {DateAt(0)},
                valid_until : {NoField, DateAt(0)},
                sha256 : {NoSha, Sha(SampleTable)}]
RefreshNows == {0, 1}

Running2 == [ok |-> FALSE, err |-> "running", at |-> 0]
ROk == [ok |-> TRUE, err |-> "", at |-> 0]
RErr(e, n) == [ok |-> FALSE, err |-> e, at |-> n]

RefreshInitWith(configs) ==
    /\ cfg \in configs
    /\ aosc \in BOOLEAN
    /\ arch \in Archs
    /\ upc = "start"
    /\ pending = {}
    /\ fetched = <<>>
    /\ scan_at = 0
    /\ res_2 = <<>>
    /\ absorbed = {}
    /\ stage_at = 0
    /\ left = 0
    /\ berr = FALSE
    /\ issued = [n \in 1..NEntries |-> 0]
    /\ parsed = {}
    /\ s1issued = 0
    /\ result = Running2

RefreshInit == RefreshInitWith(Configs)

\* update_db before it was called
RefreshIdle ==
    /\ cfg = <<>>
    /\ aosc = FALSE
    /\ arch = "amd64"
    /\ upc = "start"
    /\ pending = {}
    /\ fetched = <<>>
    /\ scan_at = 0
    /\ res_2 = <<>>
    /\ absorbed = {}
    /\ stage_at = 0
    /\ left = 0
    /\ berr = FALSE
    /\ issued = [n \in 1..NEntries |-> 0]
    /\ parsed = {}
    /\ s1issued = 0
    /\ result = Running2

\* lines 220-259: the entries are checked, then one task per entry is given
\* to the fetcher
UpdateStart ==
    /\ upc = "start"
    /\ IF hr_sources(cfg).ok
       THEN /\ upc' = IF Len(cfg) = 0 THEN "scan" ELSE "stage1"
            /\ pending' = 1..Len(cfg)
            /\ s1issued' = Len(cfg)
            /\ scan_at' = 1
            /\ result' = result
       ELSE /\ upc' = "done"
            /\ result' = RErr("UnsupportedProtocol", 0)
            /\ UNCHANGED <<pending, s1issued, scan_at>>
    /\ UNCHANGED <<cfg, aosc, arch, fetched, res_2, absorbed, stage_at, left, berr,
                   issued, parsed, fvars, pvars, ovars>>

\* start_download: the task of entry n ends; the results are in the order
\* of completion
Stage1Complete(n) ==
    /\ upc = "stage1"
    /\ n \in pending
    /\ \E o \in ReleaseOutcomes(cfg[n], n) : fetched' = Append(fetched, o)
    /\ pending' = pending \ {n}
    /\ upc' = IF pending' = {} THEN "scan" ELSE "stage1"
    /\ UNCHANGED <<cfg, aosc, arch, scan_at, res_2, absorbed, stage_at, left, berr, issued,
                   parsed, s1issued, result, fvars, pvars, ovars>>

\* lines 263-297: one iteration of the loop over the results of Stage 1
Scan ==
    /\ upc = "scan"
    /\ scan_at <= Len(fetched)
    /\ LET verdict == ScanResult(fetched[scan_at], aosc)
       IN  /\ res_2' = IF verdict = "push" THEN Append(res_2, fetched[scan_at]) ELSE res_2
           /\ scan_at' = IF verdict \in {"push", "skip"} THEN scan_at + 1 ELSE scan_at
           /\ upc' = CASE verdict = "lookup" -> "lookup"
                       [] verdict = "return" -> "done"
                       [] OTHER -> "scan"
           /\ result' = IF verdict = "return"
                        THEN RErr(fetched[scan_at].err, fetched[scan_at].task) ELSE result
    /\ UNCHANGED <<cfg, aosc, arch, pending, fetched, absorbed, stage_at, left, berr,
                   issued, parsed, s1issued, fvars, pvars, ovars>>

\* lines 272-286: scan_closed_topic answers; the suite of the url is among
\* the closed topics ("closed") or not ("open"), or the lookup fails
Lookup ==
    /\ upc = "lookup"
    /\ \E answer \in {"fail", "closed", "open"} :
          /\ upc' = IF answer = "closed" THEN "scan" ELSE "done"
          /\ scan_at' = IF answer = "closed" THEN scan_at + 1 ELSE scan_at
          /\ absorbed' = IF answer = "closed"
                         THEN absorbed \cup {fetched[scan_at].task} ELSE absorbed
          /\ result' = CASE answer = "fail" -> RErr("TopicsError", fetched[scan_at].task)
                         [] answer = "open" -> RErr("NoInReleaseFile", fetched[scan_at].task)
                         [] OTHER -> result
    /\ UNCHANGED <<cfg, aosc, arch, pending, fetched, res_2, stage_at, left, berr,
                   issued, parsed, s1issued, fvars, pvars, ovars>>

\* the loop over the results of Stage 1 is over
ScanEnd ==
    /\ upc = "scan"
    /\ scan_at > Len(fetched)
    /\ upc' = "stage2"
    /\ stage_at' = 1
    /\ UNCHANGED <<cfg, aosc, arch, pending, fetched, scan_at, res_2, absorbed, left,
                   berr, issued, parsed, s1issued, result, fvars, pvars, ovars>>

\* lines 299-445: one iteration of the loop of Stage 2, up to the wait for
\* the downloads of the indexes. The release file of the entry the Summary
\* names is parsed, with the flat flag and the components of that entry.
ParseEntry ==
    /\ upc = "stage2"
    /\ stage_at <= Len(res_2)
    /\ LET n == res_2[stage_at].count + 1
           ose == hr_sources(cfg).sources[n]
       IN  \E doc \in RefreshDocs, now \in RefreshNows :
             LET in == [doc |-> doc, is_flat |-> ose.is_flat, now |-> now,
                        components |-> ose.components]
                 out == InReleaseParserNew(in)
                 handle == Handle(ose, out.checksums, arch)
             IN  /\ pin' = in
                 /\ pout' = out
                 /\ parsed' = parsed \cup {n}
                 /\ IF out.ok
                    THEN /\ upc' = "batch"
                         /\ issued' = [issued EXCEPT ![n] = Len(handle)]
                         /\ left' = Len(handle)
                         /\ berr' = FALSE
                         /\ result' = result
                    ELSE /\ upc' = "done"
                         /\ result' = RErr(out.err, n)
                         /\ UNCHANGED <<issued, left, berr>>
    /\ UNCHANGED <<cfg, aosc, arch, pending, fetched, scan_at, res_2, absorbed, stage_at,
                   s1issued, fvars, ovars>>

\* one download of an index of the entry ends
TaskComplete ==
    /\ upc = "batch"
    /\ left > 0
    /\ left' = left - 1
    /\ \E ok \in BOOLEAN : berr' = (berr \/ ~ok)
    /\ UNCHANGED <<cfg, aosc, arch, upc, pending, fetched, scan_at, res_2, absorbed,
                   stage_at, issued, parsed, s1issued, result, fvars, pvars, ovars>>

\* lines 445-453: every download of the entry ended; the first error among
\* them is returned
BatchEnd ==
    /\ upc = "batch"
    /\ left = 0
    /\ IF berr
       THEN /\ upc' = "done"
            /\ result' = RErr("FetcherError", res_2[stage_at].count + 1)
            /\ UNCHANGED <<stage_at, pin, pout>>
       ELSE /\ upc' = "stage2"
            /\ stage_at' = stage_at + 1
            /\ pin' = IdleInput
            /\ pout' = NotParsed
            /\ result' = result
    /\ UNCHANGED <<cfg, aosc, arch, pending, fetched, scan_at, res_2, absorbed, left,
                   berr, issued, parsed, s1issued, fvars, ovars>>

\* line 456: every entry was processed
Stage2End ==
    /\ upc = "stage2"
    /\ stage_at > Len(res_2)
    /\ upc' = "done"
    /\ result' = ROk
    /\ UNCHANGED <<cfg, aosc, arch, pending, fetched, scan_at, res_2, absorbed, stage_at,
                   left, berr, issued, parsed, s1issued, fvars, pvars, ovars>>

RefreshNext ==
    \/ UpdateStart
    \/ \E n \in 1..NEntries : Stage1Complete(n)
    \/ Scan
    \/ Lookup
    \/ ScanEnd
    \/ ParseEntry
    \/ TaskComplete
    \/ BatchEnd
    \/ Stage2End

\* ============================================= the stream of one batch
\* update_db, lines 445-451: stream::iter(tasks).buffer_unordered(n).collect()
\* with n = limit.unwrap_or(4). buffer_unordered(n) starts the next task of
\* the iterator while fewer than n tasks are running, and the collect returns
\* when the iterator is empty and no task is running.

\* largest number of tasks of one batch
MaxTasks == 17
\* largest limit that is configured
MaxLimit == 17

NoLimit == [some |-> FALSE, val |-> 0]
Limits == {NoLimit} \cup {[some |-> TRUE, val |-> n] : n \in 0..MaxLimit}

\* limit.unwrap_or(4)
UnwrapLimit(l) == IF l.some THEN l.val ELSE 4

BatchInit ==
    /\ limit \in Limits
    /\ queued \in 0..MaxTasks
    /\ inflight = 0
    /\ ended = 0
    /\ collected = FALSE

\* no batch is running
BatchIdle ==
    /\ limit = NoLimit
    /\ queued = 0
    /\ inflight = 0
    /\ ended = 0
    /\ collected = FALSE

\* buffer_unordered starts the next task
TaskStart ==
    /\ ~collected
    /\ queued > 0
    /\ inflight < UnwrapLimit(limit)
    /\ queued' = queued - 1
    /\ inflight' = inflight + 1
    /\ UNCHANGED <<limit, ended, collected, fvars, pvars, rvars, xvars, nvars, gvars, dvars, avars>>

\* a running task returns
TaskEnd ==
    /\ inflight > 0
    /\ inflight' = inflight - 1
    /\ ended' = ended + 1
    /\ UNCHANGED <<limit, queued, collected, fvars, pvars, rvars, xvars, nvars, gvars, dvars, avars>>

\* every task returned: the collect returns
Collect ==
    /\ ~collected
    /\ queued = 0
    /\ inflight = 0
    /\ collected' = TRUE
    /\ UNCHANGED <<limit, queued, inflight, ended, fvars, pvars, rvars, xvars, nvars, gvars, dvars, avars>>

BatchNext == TaskStart \/ TaskEnd \/ Collect

\* ================================================ the sink of a transfer
\* http_download, lines 371-428, for a plan with an extract flag: the writer
\* is chosen by the extension of the url, every chunk is written to it and
\* fed to the validator.

\* largest length of the plaintext of an index
MaxPlain == 2

Exts == {"xz", "gz", "bz2", ""}

\* a compressed file: a header naming the format, then the coded bytes
Magic(c) == CASE c = "xz" -> 5 [] c = "gz" -> 6 [] OTHER -> 7
Encode(c, s) == <<Magic(c)>> \o [k \in 1..Len(s) |-> s[k] + 2]
WellFormed(c, b) ==
    b = <<>> \/ (b[1] = Magic(c) /\ \A k \in 2..Len(b) : b[k] \in {3, 4})
\* what a streaming decoder of format c has written after it was given b
Decode(c, b) == [k \in 1..(Len(b) - 1) |-> b[k + 1] - 2]

\* the file the url of the plan names, as the repository publishes it
Published(plan) ==
    IF plan.ext = "" THEN plan.plain ELSE Encode(plan.ext, plan.plain)
\* the body the server sends: the published file, or the plaintext itself
\* under the compressed name
Served(plan) == IF plan.honest THEN Published(plan) ELSE plan.plain

XPlans == [ext : Exts, extract : BOOLEAN, plain : SeqsUpTo(MaxPlain),
           honest : BOOLEAN]

\* lines 371-380: the writer
Writer(plan) ==
    IF plan.extract /\ plan.ext = "xz" THEN "xz"
    ELSE IF plan.extract /\ plan.ext = "gz" THEN "gz"
    ELSE "raw"

\* the content of the destination file after the writer was given b
OnDisk(plan, b) == IF Writer(plan) = "raw" THEN b ELSE Decode(Writer(plan), b)

ExtractInit ==
    /\ xplan \in XPlans
    /\ xrest = Served(xplan)
    /\ xraw = <<>>
    /\ xfed = <<>>
    /\ xpc = "body"
    /\ xres = Pending

\* no transfer is running
ExtractIdle ==
    /\ xplan = [ext |-> "", extract |-> FALSE, plain |-> <<>>, honest |-> TRUE]
    /\ xrest = <<>>
    /\ xraw = <<>>
    /\ xfed = <<>>
    /\ xpc = "done"
    /\ xres = Pending

\* lines 384-401: one chunk is written to the writer, then fed to the
\* validator; a decoder refuses bytes that are not of its format
ExtractChunk ==
    /\ xpc = "body"
    /\ xrest # <<>>
    /\ \E n \in 1..Len(xrest) :
          LET chunk == SubSeq(xrest, 1, n)
          IN  IF Writer(xplan) = "raw" \/ WellFormed(Writer(xplan), xraw \o chunk)
              THEN /\ xraw' = xraw \o chunk
                   /\ xfed' = xfed \o chunk
                   /\ xrest' = SubSeq(xrest, n + 1, Len(xrest))
                   /\ UNCHANGED <<xpc, xres>>
              ELSE /\ xpc' = "done"
                   /\ xres' = Err("IOError")
                   /\ UNCHANGED <<xraw, xfed, xrest>>
    /\ UNCHANGED <<xplan, fvars, pvars, rvars, bvars, nvars, gvars, dvars, avars>>

\* lines 405-435: the body is over; the checksum of the table, taken over the
\* published file, is compared with what the validator was fed
ExtractEnd ==
    /\ xpc = "body"
    /\ xrest = <<>>
    /\ xpc' = "done"
    /\ xres' = IF Finish(SomeV(xfed), Digest(Published(xplan)))
               THEN OkSummary(TRUE, 0) ELSE Err("ChecksumMisMatch")
    /\ UNCHANGED <<xplan, xrest, xraw, xfed, fvars, pvars, rvars, bvars, nvars, gvars, dvars, avars>>

ExtractNext == ExtractChunk \/ ExtractEnd

\* ============================================ the shared global counter
\* The mutations of global_progress in http_download and download_local, by
\* plans that are futures of one stream (db.rs, line 445): a plan gives way
\* to another one only where it awaits.

\* largest number of mutations of one plan
MaxOps == 2

CounterPlans == 1..2

\* fetch_add (lines 199, 493), fetch_sub (220, 224), store(load + n)
\* (393-396), store(load - n) (279-281, 415-420)
OpKinds == {"fetch_add", "fetch_sub", "load_add_store", "load_sub_store"}
Programs == UNION {[1..k -> OpKinds] : k \in 0..MaxOps}
Delta(op) == IF op \in {"fetch_add", "load_add_store"} THEN 1 ELSE -1

NoReg == [some |-> FALSE, val |-> 0]

\* a counter where an await stands between the load and the store
AwaitBetween_LoadStore(op) == op \in {"load_add_store", "load_sub_store"}

\* is there an await between the read and the write of the mutation: there
\* is none, lines 279-281, 393-396 and 415-420 call only the callback
AwaitBetween(op) == FALSE

CounterInit ==
    /\ g_counter = 0
    /\ g_prog \in [CounterPlans -> Programs]
    /\ g_net = [p \in CounterPlans |-> 0]
    /\ g_reg = [p \in CounterPlans |-> NoReg]
    /\ g_last = 0
    /\ g_switch = 0

\* no batch is running
CounterIdle ==
    /\ g_counter = 0
    /\ g_prog = [p \in CounterPlans |-> <<>>]
    /\ g_net = [p \in CounterPlans |-> 0]
    /\ g_reg = [p \in CounterPlans |-> NoReg]
    /\ g_last = 0
    /\ g_switch = 0

\* plan p runs from one await to the next and makes its next mutation
CounterStep(p) ==
    /\ g_prog[p] # <<>>
    /\ LET op == Head(g_prog[p])
       IN  IF g_reg[p].some
           THEN \* the store of a value loaded before the await
                /\ g_counter' = g_reg[p].val + Delta(op)
                /\ g_net' = [g_net EXCEPT ![p] = @ + Delta(op)]
                /\ g_reg' = [g_reg EXCEPT ![p] = NoReg]
                /\ g_prog' = [g_prog EXCEPT ![p] = Tail(@)]
           ELSE IF AwaitBetween(op)
           THEN /\ g_reg' = [g_reg EXCEPT ![p] = [some |-> TRUE, val |-> g_counter]]
                /\ UNCHANGED <<g_counter, g_net, g_prog>>
           ELSE /\ g_counter' = g_counter + Delta(op)
                /\ g_net' = [g_net EXCEPT ![p] = @ + Delta(op)]
                /\ g_prog' = [g_prog EXCEPT ![p] = Tail(@)]
                /\ UNCHANGED g_reg
    /\ g_last' = p
    /\ g_switch' = IF g_last \notin {0, p} THEN g_switch + 1 ELSE g_switch
    /\ UNCHANGED <<fvars, pvars, rvars, bvars, xvars, nvars, dvars, avars>>

CounterNext == \E p \in CounterPlans : CounterStep(p)

\* ======================================================= FileName::new
\* largest length of what follows the scheme in a url
MaxUrl == 2

Schemes == {"http", "https", "file"}
Chars == {"/", "_", "a"}
Urls == [scheme : Schemes, rest : UNION {[1..k -> Chars] : k \in 0..MaxUrl}]

NoName == [ok |-> FALSE, err |-> "not run", name |-> <<>>]

\* Url::parse: a url of a scheme with a host needs one
UrlParse(u) == u.scheme = "file" \/ u.rest # <<>>

\* FileName::new: the scheme and "://" are taken off, every '/' becomes '_'
FileNameNew(u) ==
    IF ~UrlParse(u) THEN [ok |-> FALSE, err |-> "ParseError", name |-> <<>>]
    ELSE [ok |-> TRUE, err |-> "",
          name |-> [k \in 1..Len(u.rest) |-> IF u.rest[k] = "/" THEN "_" ELSE u.rest[k]]]

NameInit ==
    /\ url_a \in Urls
    /\ url_b \in Urls
    /\ name_a = NoName
    /\ name_b = NoName

\* no url was given
NameIdle ==
    /\ url_a = [scheme |-> "http", rest |-> <<>>]
    /\ url_b = [scheme |-> "http", rest |-> <<>>]
    /\ name_a = NoName
    /\ name_b = NoName

NameStep ==
    /\ name_a = NoName
    /\ name_a' = FileNameNew(url_a)
    /\ name_b' = FileNameNew(url_b)
    /\ UNCHANGED <<url_a, url_b, fvars, pvars, rvars, bvars, xvars, gvars, dvars, avars>>

\* ============================================== date_hack and parse_date
\* A date string is its whitespace-separated tokens and the number of blanks
\* between them; a token is the pieces its ':' separate. The pieces are a
\* single digit, two-digit numbers, the zone names UTC and +0000.
MaxTokens == 2

Pieces == {"9", "09", "58", "UTC", "+0000"}
PieceLen(k) == IF k = "9" THEN 1 ELSE IF k = "UTC" THEN 3 ELSE IF k = "+0000" THEN 5 ELSE 2
\* k.parse::<u64>(): digits after an optional '+'
ParseU64(k) ==
    IF k = "UTC" THEN [ok |-> FALSE, n |-> 0]
    ELSE [ok |-> TRUE, n |-> IF k = "58" THEN 58 ELSE IF k = "+0000" THEN 0 ELSE 9]
\* "0".to_string() + k, for the single digit of Pieces
ZeroPlus(k) == IF k = "9" THEN "09" ELSE k

DateTokens ==
    {<<a>> : a \in Pieces} \cup {<<a, b>> : a, b \in Pieces}
        \cup {<<h, "58", "58">> : h \in {"9", "09"}}
DateStrings ==
    UNION {[toks : [1..n -> DateTokens], gaps : [1..(n - 1) -> 1..2]] : n \in 1..MaxTokens}

\* lines 269-277 without the padding
PadPiece_Never(k) == k

\* lines 269-277: a piece that parses as a number below 10 and is one
\* character long gets a leading 0
PadPiece(k) ==
    IF ParseU64(k).ok /\ ParseU64(k).n <= 9 /\ PieceLen(k) = 1 THEN ZeroPlus(k) ELSE k

\* lines 259-281: a token with a ':' is split in two at its first ':'; the
\* two parts are padded in turn until one does not parse as a number
HackToken(c) ==
    IF Len(c) = 1 THEN c
    ELSE IF ~ParseU64(c[1]).ok THEN c
    ELSE IF Len(c) = 2 /\ ParseU64(c[2]).ok THEN <<PadPiece(c[1]), PadPiece(c[2])>>
    ELSE <<PadPiece(c[1])>> \o Tail(c)

\* line 285: date.replace("UTC", "+0000")
ReplaceUTC(c) == [k \in 1..Len(c) |-> IF c[k] = "UTC" THEN "+0000" ELSE c[k]]

\* date_hack: the tokens joined by one blank
date_hack(s) ==
    [toks |-> [k \in 1..Len(s.toks) |-> ReplaceUTC(HackToken(s.toks[k]))],
     gaps |-> [k \in 1..(Len(s.toks) - 1) |-> 1]]

\* DateTime::parse_from_rfc2822 on the strings of the model: a time of two
\* or three two-digit numbers, one blank, the zone +0000
NoInstant == [ok |-> FALSE, t |-> <<>>]
IsTime(c) == Len(c) \in {2, 3} /\ \A k \in 1..Len(c) : c[k] \in {"09", "58"}
ParseFromRfc2822(s) ==
    IF Len(s.toks) = 2 /\ IsTime(s.toks[1]) /\ s.toks[2] = <<"+0000">> /\ s.gaps = <<1>>
    THEN [ok |-> TRUE, t |-> [k \in 1..Len(s.toks[1]) |-> ParseU64(s.toks[1][k]).n]]
    ELSE NoInstant

\* parse_date: the string as it is, and after date_hack when that fails
parse_date(s) ==
    IF ParseFromRfc2822(s).ok THEN ParseFromRfc2822(s)
    ELSE ParseFromRfc2822(date_hack(s))

NotHacked == [toks |-> <<>>, gaps |-> <<>>]

DateInit ==
    /\ d_in \in DateStrings
    /\ d_hack = NotHacked
    /\ d_parsed = NoInstant

\* no date was given
DateIdle ==
    /\ d_in = [toks |-> <<<<"09">>>>, gaps |-> <<>>]
    /\ d_hack = NotHacked
    /\ d_parsed = NoInstant

DateStep ==
    /\ d_hack = NotHacked
    /\ d_hack' = date_hack(d_in)
    /\ d_parsed' = parse_date(d_in)
    /\ UNCHANGED <<d_in, fvars, pvars, rvars, bvars, xvars, nvars, gvars, avars>>

\* ========================================================= OmaApt::commit
\* commit runs alone and is synchronous apart from the block_on of
\* download_pkgs; its actions are the calls it makes, whose outcomes are
\* chosen by the environment.
MaxPkgs == 3

PlanErrors == {"NotFound", "ChecksumMisMatch"}
Unlocked == [held |-> FALSE, inner |-> FALSE, stray |-> FALSE]
CommitOk == [ok |-> TRUE, err |-> "", count |-> 0, errors |-> <<>>]
CommitErr(e) == [ok |-> FALSE, err |-> e, count |-> 0, errors |-> <<>>]
\* OmaAptError::FailedToDownload(failed.len(), failed)
FailedToDownload(f) == [ok |-> FALSE, err |-> "FailedToDownload", count |-> Len(f), errors |-> f]
NotReturned == [ok |-> FALSE, err |-> "running", count |-> 0, errors |-> <<>>]

\* apt_lock, apt_unlock_inner, apt_lock_inner, apt_unlock
AptLock(l) == [l EXCEPT !.held = TRUE, !.inner = TRUE]
AptUnlockInner(l) == [l EXCEPT !.inner = FALSE]
AptLockInner(l) == [l EXCEPT !.inner = TRUE]
AptUnlock(l) ==
    IF l.held THEN [l EXCEPT !.held = FALSE, !.inner = FALSE]
    ELSE [l EXCEPT !.stray = TRUE]

CommitInit ==
    /\ dry_run \in BOOLEAN
    /\ pkg_list \in 0..MaxPkgs
    /\ cpc = "summary"
    /\ success = 0
    /\ failed = <<>>
    /\ apt = Unlocked
    /\ commit_res = NotReturned
    /\ calls = <<>>

\* commit was not called
CommitIdle ==
    /\ dry_run = TRUE
    /\ pkg_list = 0
    /\ cpc = "summary"
    /\ success = 0
    /\ failed = <<>>
    /\ apt = Unlocked
    /\ commit_res = NotReturned
    /\ calls = <<>>

CommitReturn(r) ==
    /\ cpc' = "done"
    /\ commit_res' = r

\* lines 479-487: self.summary()?, then the return of a dry run
CommitSummary ==
    /\ cpc = "summary"
    /\ \E summary_ok \in BOOLEAN :
          IF ~summary_ok THEN CommitReturn(CommitErr("summary"))
          ELSE IF dry_run THEN CommitReturn(CommitOk)
          ELSE cpc' = "download" /\ UNCHANGED commit_res
    /\ calls' = Append(calls, "summary")
    /\ UNCHANGED <<dry_run, pkg_list, success, failed, apt, fvars, pvars, rvars, bvars, xvars, nvars, gvars, dvars>>

\* the test of line 502 left out
DownloadFailed_Ignored(f) == FALSE

\* line 502: !failed.is_empty()
DownloadFailed(f) == f # <<>>

\* lines 493-504: download_pkgs under block_on. It returns Err before any
\* plan is started (a package without file name, a plan that cannot be
\* built, a fetcher that cannot be created), or the summaries of the plans
\* that ended with Ok and the errors of the others.
CommitDownload ==
    /\ cpc = "download"
    /\ calls' = Append(calls, "download_pkgs")
    /\ \E built \in BOOLEAN :
          IF ~built /\ pkg_list > 0
          THEN /\ CommitReturn(CommitErr("InvalidFileName"))
               /\ UNCHANGED <<success, failed>>
          ELSE \E f \in UNION {[1..k -> PlanErrors] : k \in 0..pkg_list} :
                  /\ failed' = f
                  /\ success' = pkg_list - Len(f)
                  /\ IF DownloadFailed(f)
                     THEN CommitReturn(FailedToDownload(f))
                     ELSE cpc' = "lock" /\ UNCHANGED commit_res
    /\ UNCHANGED <<dry_run, pkg_list, apt, fvars, pvars, rvars, bvars, xvars, nvars, gvars, dvars>>

\* lines 512-521: apt_lock(); when its error names dpkg --configure -a,
\* run_dpkg_configure and apt_lock once more
CommitLock ==
    /\ cpc = "lock"
    /\ \E first \in {"ok", "dpkg --configure -a", "other"}, configured, second \in BOOLEAN :
          IF first = "ok"
          THEN /\ apt' = AptLock(apt)
               /\ calls' = Append(calls, "apt_lock")
               /\ cpc' = "get_archives" /\ UNCHANGED commit_res
          ELSE IF first = "other"
          THEN /\ calls' = Append(calls, "apt_lock")
               /\ CommitReturn(CommitErr("lock"))
               /\ UNCHANGED apt
          ELSE IF ~configured
          THEN /\ calls' = calls \o <<"apt_lock", "run_dpkg_configure">>
               /\ CommitReturn(CommitErr("DpkgFailedConfigure"))
               /\ UNCHANGED apt
          ELSE IF ~second
          THEN /\ calls' = calls \o <<"apt_lock", "run_dpkg_configure", "apt_lock">>
               /\ CommitReturn(CommitErr("lock"))
               /\ UNCHANGED apt
          ELSE /\ calls' = calls \o <<"apt_lock", "run_dpkg_configure", "apt_lock">>
               /\ apt' = AptLock(apt)
               /\ cpc' = "get_archives" /\ UNCHANGED commit_res
    /\ UNCHANGED <<dry_run, pkg_list, success, failed, fvars, pvars, rvars, bvars, xvars, nvars, gvars, dvars>>

\* lines 525-529 without the apt_unlock of the error path
ArchivesFailed_KeepLock(l) == l

\* lines 525-529: get_archives failed
ArchivesFailed(l) == AptUnlock(l)

\* lines 525-544: get_archives, then apt_unlock_inner
CommitGetArchives ==
    /\ cpc = "get_archives"
    /\ calls' = Append(calls, "get_archives")
    /\ \E ok \in BOOLEAN :
          IF ok THEN /\ apt' = AptUnlockInner(apt)
                     /\ cpc' = "do_install" /\ UNCHANGED commit_res
          ELSE /\ apt' = ArchivesFailed(apt)
               /\ CommitReturn(CommitErr("get_archives"))
    /\ UNCHANGED <<dry_run, pkg_list, success, failed, fvars, pvars, rvars, bvars, xvars, nvars, gvars, dvars>>

\* lines 548-556: do_install; apt_lock_inner and apt_unlock when it failed,
\* apt_unlock when it succeeded
CommitDoInstall ==
    /\ cpc = "do_install"
    /\ calls' = Append(calls, "do_install")
    /\ \E ok \in BOOLEAN :
          IF ok THEN /\ apt' = AptUnlock(apt)
                     /\ cpc' = "history" /\ UNCHANGED commit_res
          ELSE /\ apt' = AptUnlock(AptLockInner(apt))
               /\ CommitReturn(CommitErr("do_install"))
    /\ UNCHANGED <<dry_run, pkg_list, success, failed, fvars, pvars, rvars, bvars, xvars, nvars, gvars, dvars>>

\* lines 560-596: the history file
CommitHistory ==
    /\ cpc = "history"
    /\ calls' = Append(calls, "history")
    /\ \E e \in {"", "FailedGetParentPath", "FailedOperateDirOrFile"} :
          CommitReturn(IF e = "" THEN CommitOk ELSE CommitErr(e))
    /\ UNCHANGED <<dry_run, pkg_list, success, failed, apt, fvars, pvars, rvars, bvars, xvars, nvars, gvars, dvars>>

CommitNext ==
    \/ CommitSummary
    \/ CommitDownload
    \/ CommitLock
    \/ CommitGetArchives
    \/ CommitDoInstall
    \/ CommitHistory

\* ---------------------------------------------------------------- actions
\* The first plan of the batch has any entry and any destination file; the
\* other plans of the batch are plans whose file is already there and complete.
CachedBody == <<1>>
CachedEntry == [source |-> <<Source("Http", 1)>>,
                hash |-> [some |-> TRUE, val |-> Digest(CachedBody)],
                allow_resume |-> FALSE]

FetchInitWith(entries, files) ==
    /\ \E e \in entries, d \in files :
          /\ entry = [p \in Plans |-> IF p = 1 THEN e ELSE CachedEntry]
          /\ file = [p \in Plans |-> IF p = 1 THEN d ELSE File(CachedBody)]
    /\ global_progress = 0
    /\ observed = 0
    /\ pc = [p \in Plans |-> "start"]
    /\ i = [p \in Plans |-> 0]
    /\ times = [p \in Plans |-> 0]
    /\ loc = [p \in Plans |-> LocInit]
    /\ res = [p \in Plans |-> Pending]
    /\ prev_get = [p \in Plans |-> FALSE]
    /\ src_gets = [p \in Plans |-> 0]
    /\ att = [p \in Plans |-> AttInit]
    /\ next_url = [p \in Plans |-> 0]
    /\ nfail = [p \in Plans |-> 0]
    /\ last = [p \in Plans |-> Pending]
    /\ retries = [p \in Plans |-> <<>>]
    /\ exhausted = [p \in Plans |-> FALSE]

FetchInit == FetchInitWith(Entries, Files)

\* the fetcher before any plan was given to it
FetchIdle ==
    /\ entry = [p \in Plans |-> CachedEntry]
    /\ file = [p \in Plans |-> File(CachedBody)]
    /\ global_progress = 0
    /\ observed = 0
    /\ pc = [p \in Plans |-> "start"]
    /\ i = [p \in Plans |-> 0]
    /\ times = [p \in Plans |-> 0]
    /\ loc = [p \in Plans |-> LocInit]
    /\ res = [p \in Plans |-> Pending]
    /\ prev_get = [p \in Plans |-> FALSE]
    /\ src_gets = [p \in Plans |-> 0]
    /\ att = [p \in Plans |-> AttInit]
    /\ next_url = [p \in Plans |-> 0]
    /\ nfail = [p \in Plans |-> 0]
    /\ last = [p \in Plans |-> Pending]
    /\ retries = [p \in Plans |-> <<>>]
    /\ exhausted = [p \in Plans |-> FALSE]

\* try_download, lines 38-43: sort the sources and start with the first,
\* up to the first suspension of the call
TryStart(p) ==
    /\ pc[p] = "start"
    /\ Commit(p, Dispatch(Cur(p), entry[p], 1))

\* the existing file is empty: the read loop ends at once
CheckEmpty(p) ==
    /\ pc[p] = "check"
    /\ loc[p].readed = loc[p].file_size
    /\ Commit(p, CheckFinish(Cur(p), entry[p], p))

CheckStep(p) ==
    /\ pc[p] = "check"
    /\ loc[p].readed < loc[p].file_size
    /\ \E n \in 1..(loc[p].file_size - loc[p].readed) :
           Commit(p, CheckRead(Cur(p), entry[p], p, n))

\* reqwest sends a request only to an http(s) url
HeadAnswers(url) ==
    IF url.scheme = "http"
    THEN [err : BOOLEAN, ranges : BOOLEAN, len : 0..MaxLen]
    ELSE [err : {TRUE}, ranges : {FALSE}, len : {0}]

HeadStep(p) ==
    /\ pc[p] = "head"
    /\ \E hd \in HeadAnswers(PositionUrl(Cur(p), entry[p])) :
           Commit(p, HeadRequest(Cur(p), entry[p], hd))

GetStep(p) ==
    /\ pc[p] = "get"
    /\ \E rsp \in {"senderr", "404", "500", "ok"} :
           Commit(p, Get(Cur(p), entry[p], rsp))

BodyStep(p) ==
    /\ pc[p] = "body"
    /\ \E chunk \in SeqsUpTo(MaxLen - Len(file[p].data)) \ {<<>>} :
           Commit(p, Body(Cur(p), entry[p], chunk))

BodyErrStep(p) ==
    /\ pc[p] = "body"
    /\ Commit(p, BodyErr(Cur(p), entry[p]))

BodyEndStep(p) ==
    /\ pc[p] = "body"
    /\ Commit(p, BodyEnd(Cur(p), entry[p], p))

LocalBegin(p) ==
    /\ pc[p] = "local_begin"
    /\ \E opened \in BOOLEAN :
           Commit(p, LocalOpen(Cur(p), entry[p], opened))

LocalCopyStep(p) ==
    /\ pc[p] = "local_copy"
    /\ \E data \in Contents, copied \in BOOLEAN :
           Commit(p, LocalCopy(Cur(p), entry[p], p, data, copied))

FetchNext ==
    \E p \in Plans :
        \/ TryStart(p)
        \/ CheckEmpty(p)
        \/ CheckStep(p)
        \/ HeadStep(p)
        \/ GetStep(p)
        \/ BodyStep(p)
        \/ BodyErrStep(p)
        \/ BodyEndStep(p)
        \/ LocalBegin(p)
        \/ LocalCopyStep(p)

\* ------------------------------------------------ one plan and a long body
\* try_download for one plan with an http source whose remote file has two
\* bytes, the destination holding nothing, a part of it, all of it or
\* something else; the other plans of the batch stay where they are.
ResumeBody == <<1, 2>>
ResumeEntries == [source : {<<Source("Http", 1)>>},
                  hash : {NoHash, [some |-> TRUE, val |-> Digest(ResumeBody)]},
                  allow_resume : BOOLEAN]
ResumeFiles == {NoFile} \cup {File(d) : d \in SeqsUpTo(Len(ResumeBody))}

ResumeHeadStep(p) ==
    /\ pc[p] = "head"
    /\ \E hd \in [err : BOOLEAN, ranges : BOOLEAN, len : 0..Len(ResumeBody)] :
           Commit(p, HeadRequest(Cur(p), entry[p], hd))

ResumeBodyStep(p) ==
    /\ pc[p] = "body"
    /\ \E chunk \in SeqsUpTo(Len(ResumeBody) - Len(file[p].data)) \ {<<>>} :
           Commit(p, Body(Cur(p), entry[p], chunk))

ResumeNext ==
    \/ TryStart(1)
    \/ CheckEmpty(1)
    \/ CheckStep(1)
    \/ ResumeHeadStep(1)
    \/ GetStep(1)
    \/ ResumeBodyStep(1)
    \/ BodyErrStep(1)
    \/ BodyEndStep(1)

Next == FetchNext

\* the fetcher running one batch of plans
Init == FetchInit /\ ParseIdle /\ RefreshIdle /\ BatchIdle /\ ExtractIdle /\ NameIdle /\ CounterIdle /\ DateIdle /\ CommitIdle
Spec == Init /\ [][Next]_vars

\* InReleaseParser::new applied to one release file
InitParse == FetchIdle /\ ParseInit /\ RefreshIdle /\ BatchIdle /\ ExtractIdle /\ NameIdle /\ CounterIdle /\ DateIdle /\ CommitIdle
SpecParse == InitParse /\ [][ParseStep]_vars

\* the parser alone, on the tables of TableInputs
InitTable == FetchIdle /\ ParseInitWith(TableInputs) /\ RefreshIdle /\ BatchIdle /\ ExtractIdle /\ NameIdle /\ CounterIdle /\ DateIdle /\ CommitIdle
SpecTable == InitTable /\ [][ParseStep]_vars

\* update_db refreshing the configured repositories
InitRefresh == FetchIdle /\ ParseIdle /\ RefreshInit /\ BatchIdle /\ ExtractIdle /\ NameIdle /\ CounterIdle /\ DateIdle /\ CommitIdle
SpecRefresh == InitRefresh /\ [][RefreshNext]_vars

\* the stream of the tasks of one batch
InitBatch == FetchIdle /\ ParseIdle /\ RefreshIdle /\ BatchInit /\ ExtractIdle /\ NameIdle /\ CounterIdle /\ DateIdle /\ CommitIdle
SpecBatch == InitBatch /\ [][BatchNext]_vars

\* try_download for one plan whose remote file has two bytes
InitResume == FetchInitWith(ResumeEntries, ResumeFiles) /\ ParseIdle /\ RefreshIdle /\ BatchIdle /\ ExtractIdle /\ NameIdle /\ CounterIdle /\ DateIdle /\ CommitIdle
SpecResume == InitResume /\ [][ResumeNext]_vars

\* update_db refreshing a sources.list of one entry
InitEntry == FetchIdle /\ ParseIdle /\ RefreshInitWith(OneEntryConfigs) /\ BatchIdle /\ ExtractIdle /\ NameIdle /\ CounterIdle /\ DateIdle /\ CommitIdle
SpecEntry == InitEntry /\ [][RefreshNext]_vars

\* the transfer of one index into its destination file
InitExtract == FetchIdle /\ ParseIdle /\ RefreshIdle /\ BatchIdle /\ ExtractInit /\ NameIdle /\ CounterIdle /\ DateIdle /\ CommitIdle
SpecExtract == InitExtract /\ [][ExtractNext]_vars

\* FileName::new applied to two urls
InitName == FetchIdle /\ ParseIdle /\ RefreshIdle /\ BatchIdle /\ ExtractIdle /\ NameInit /\ CounterIdle /\ DateIdle /\ CommitIdle
SpecName == InitName /\ [][NameStep]_vars

\* date_hack and parse_date alone
InitDate == FetchIdle /\ ParseIdle /\ RefreshIdle /\ BatchIdle /\ ExtractIdle /\ NameIdle /\ CounterIdle /\ DateInit /\ CommitIdle
SpecDate == InitDate /\ [][DateStep]_vars

\* OmaApt::commit alone
InitCommit == FetchIdle /\ ParseIdle /\ RefreshIdle /\ BatchIdle /\ ExtractIdle /\ NameIdle /\ CounterIdle /\ DateIdle /\ CommitInit
SpecCommit == InitCommit /\ [][CommitNext]_vars

\* the plans of a batch changing the global counter
InitCounter == FetchIdle /\ ParseIdle /\ RefreshIdle /\ BatchIdle /\ ExtractIdle /\ NameIdle /\ CounterInit /\ DateIdle /\ CommitIdle
SpecCounter == InitCounter /\ [][CounterNext]_vars

\* ================================================================= claims
HttpPcs == {"check", "head", "get", "body"}
Running(p) == pc[p] \in HttpPcs \cup {"local_begin", "local_copy"}
Sorted(p) == SortSources(entry[p].source)

RECURSIVE SumOver(_, _)
SumOver(f, n) == IF n = 0 THEN 0 ELSE f[n] + SumOver(f, n - 1)

\* a lower bound of the GET requests plan p issued so far: those to its
\* current source, and one when an earlier source got any
GetsAtLeast(p) == src_gets[p] + (IF prev_get[p] THEN 1 ELSE 0)

\* C1 as stated: a plan issues at most retry_times+1 GET requests in total,
\* whatever its number of sources.
C1_PlanRetryBound ==
    \A p \in Plans : GetsAtLeast(p) <= RetryTimes + 1

\* C1 (amended): each source of a plan is sent at most retry_times+1 GET
\* requests, the count starting again with each source; a further attempt
\* on a source is under way only after an attempt that failed with
\* ChecksumMisMatch, and after any other error no attempt on that source
\* follows.
C1_SourceRetryBound ==
    \A p \in Plans :
        /\ src_gets[p] <= times[p] + 1
        /\ times[p] <= RetryTimes
        /\ src_gets[p] <= RetryTimes + 1
        /\ prev_get[p] => i[p] > 1
        /\ (times[p] > 0 /\ pc[p] \in HttpPcs) => last[p].err = "ChecksumMisMatch"
        /\ (pc[p] \in HttpPcs /\ last[p].err # "pending") => last[p].err = "ChecksumMisMatch"
        /\ (~last[p].ok /\ last[p].err \notin {"pending", "ChecksumMisMatch"}) => pc[p] = "done"

\* a plan with two Http sources used up the retries of both
C1_Witness ==
    \E p \in Plans :
        /\ pc[p] = "done" /\ last[p].err = "ChecksumMisMatch"
        /\ i[p] = 2 /\ prev_get[p] /\ src_gets[p] = RetryTimes + 1

\* C2: every source before the current one failed and was followed by a
\* CanNotGetSourceNextUrl event and by the attempt of the next source; the
\* first success is returned and no later source is tried; an error is
\* returned only when every source failed, and it is the error of the last
\* source; a plan that returned does nothing more.
C2_SourceFallback ==
    /\ [](\A p \in Plans :
            /\ Running(p) => /\ i[p] \in 1..Len(Sorted(p))
                              /\ nfail[p] = i[p] - 1
                              /\ next_url[p] = i[p] - 1
                              /\ res[p] = Pending
            /\ (pc[p] = "done" /\ res[p].ok) =>
                    /\ nfail[p] = i[p] - 1
                    /\ next_url[p] = i[p] - 1
                    /\ res[p] = last[p]
            /\ (pc[p] = "done" /\ ~res[p].ok) =>
                    /\ i[p] = Len(Sorted(p))
                    /\ nfail[p] = Len(Sorted(p))
                    /\ next_url[p] = Len(Sorted(p)) - 1
                    /\ res[p] = last[p]
                    /\ res[p] # Pending)
    /\ [][\A p \in Plans :
            pc[p] = "done" => /\ pc'[p] = "done" /\ res'[p] = res[p]
                              /\ i'[p] = i[p] /\ src_gets'[p] = src_gets[p]
                              /\ file'[p] = file[p]]_vars

\* the first source failed with NotFound, the second one succeeded
C2_Witness ==
    \E p \in Plans :
        /\ pc[p] = "done" /\ res[p].ok
        /\ i[p] = 2 /\ nfail[p] = 1 /\ next_url[p] = 1

\* C3: an http_download call that finds the destination file with the
\* expected checksum issues no HEAD and no GET, emits one ProgressDone,
\* adds the length of the file to the counter and returns a Summary whose
\* flag is false, the flag being true after a transfer.
C3_CacheHit ==
    \A p \in Plans :
        /\ att[p].hit =>
              /\ att[p].heads = 0 /\ att[p].gets = 0
              /\ pc[p] \in {"check", "done"}
              /\ pc[p] = "check" => att[p].dones = 0
              /\ pc[p] = "done" =>
                    /\ res[p].ok /\ ~res[p].wrote
                    /\ att[p].dones = 1
                    /\ att[p].added = Len(file[p].data)
        /\ (pc[p] = "done" /\ res[p].ok /\ att[p].gets > 0) => res[p].wrote
        /\ (pc[p] = "done" /\ res[p].ok /\ ~res[p].wrote) => att[p].hit

\* the first plan found its file complete after a source that failed
C3_Witness ==
    /\ pc[1] = "done" /\ att[1].hit /\ res[1].ok /\ ~res[1].wrote
    /\ global_progress >= MaxLen

\* the bytes plan p accounts for: the length of the destination file once
\* it returned Ok, the bytes read by the check while it runs, and during a
\* transfer the bytes kept for a resume plus the bytes transferred
Share(p) ==
    IF pc[p] = "done" THEN (IF res[p].ok THEN Len(file[p].data) ELSE 0)
    ELSE IF pc[p] = "check" THEN loc[p].readed
    ELSE IF pc[p] \in {"head", "get", "body"}
         THEN (IF loc[p].dest THEN loc[p].file_size ELSE 0) + loc[p].self_progress
    ELSE 0

\* C4: global-byte conservation, for the batches where every plan has a
\* checksum, as long as no attempt of the batch failed: the counter is the
\* sum of the shares of the plans.
C4_Conservation ==
    (\A p \in Plans : entry[p].hash.some /\ nfail[p] = 0 /\ times[p] = 0)
        => global_progress = SumOver([p \in Plans |-> Share(p)], NPlans)

\* C10: a Summary carries the index the caller gave to its plan
C10_SummaryIndex ==
    \A p \in Plans : (pc[p] = "done" /\ res[p].ok) => res[p].count = ListCount(p)

\* C5 as stated: for a non-flat repository a file that does not begin with
\* the clear-sign header never yields a checksum table.
C5_UnsignedOnlyFlat ==
    (~pin.is_flat /\ ~pin.doc.sig.signed) => ~pout.ok

\* what is parsed after the verification: the paragraphs
Reaches(in) == Verified(in.doc) \in {"payload", "raw"} /\ in.doc.syntax_ok
DateErrors == {"BadInReleaseData", "EarlierSignature", "BadInReleaseVaildUntil",
               "ExpiredSignature"}

\* C7: a release of a non-flat repository whose Date parses is rejected
\* with EarlierSignature when now < Date, with ExpiredSignature when
\* Date <= now and Valid-Until is present and now > Valid-Until, and is not
\* rejected for its dates when Date <= now <= Valid-Until (or Date <= now
\* without Valid-Until); a release of a flat repository is never rejected
\* for its dates.
C7_Freshness ==
    (pout # NotParsed /\ Reaches(pin)) =>
        LET d == pin.doc.date
            v == pin.doc.valid_until
        IN  /\ pin.is_flat => pout.err \notin DateErrors
            /\ (~pin.is_flat /\ d.present /\ d.parsable) =>
                  /\ pin.now < d.t => pout.err = "EarlierSignature"
                  /\ (pin.now >= d.t /\ v.present /\ v.parsable /\ pin.now > v.t)
                        => pout.err = "ExpiredSignature"
                  /\ (pin.now >= d.t /\ (~v.present \/ (v.parsable /\ pin.now <= v.t)))
                        => pout.err \notin DateErrors

\* a release parsed exactly at its Date and at its Valid-Until is accepted
C7_Witness ==
    /\ pout.ok /\ ~pin.is_flat
    /\ pin.doc.date = DateAt(pin.now) /\ pin.doc.valid_until = DateAt(pin.now)

\* C6: when the verification of a clear-signed release file fails,
\* InReleaseParser::new returns the error of the verification whatever the
\* fields of the file are, with no checksum table, and update_db returns
\* that error at once: no index download is started for the entry.
C6_VerifyFailure ==
    (pout # NotParsed /\ pin.doc.sig.signed /\ pin.doc.sig.verify # "ok") =>
        /\ pout = ParseErr(pin.doc.sig.verify)
        /\ upc = "done"
        /\ result.err = pin.doc.sig.verify
        /\ result.at \in parsed
        /\ issued[result.at] = 0

\* the release of the second entry is signed with an untrusted key and is
\* not even well-formed, after the indexes of the first entry were downloaded
C6_Witness ==
    /\ upc = "done"
    /\ pin.doc.sig.verify = "UntrustedKey" /\ ~pin.doc.syntax_ok
    /\ result.err = "UntrustedKey"
    /\ stage_at = 2
    /\ \E n \in 1..NEntries : issued[n] > 0

\* C8 as stated: a failure in Stage 2 does not stop the refresh: when
\* update_db returns, the release file of every entry Stage 1 fetched has
\* been processed.
C8_OthersContinue ==
    (upc = "done" /\ stage_at > 0) =>
        \A m \in 1..Len(res_2) : (res_2[m].count + 1) \in parsed

\* the result of Stage 1 on which update_db fails: the first one, in the
\* order of completion, that is an error and not the 404 of a closed topic
FirstFatal ==
    LET bad == {m \in 1..Len(fetched) :
                    ~fetched[m].ok /\ fetched[m].task \notin absorbed}
    IN  IF bad = {} THEN 0 ELSE CHOOSE m \in bad : \A o \in bad : m <= o

\* the errors update_db returns for a failed result r of Stage 1
Stage1Errors(r) ==
    IF aosc /\ r.err = "NotFound" THEN {"NoInReleaseFile", "TopicsError"}
    ELSE {r.err}

NoStage2 == parsed = {} /\ \A n \in 1..NEntries : issued[n] = 0

\* C9: when a configured entry has an unsupported protocol, no download is
\* started at all and update_db returns UnsupportedProtocol; when a release
\* download of Stage 1 ends with an error that is not the 404 of a closed
\* topic, no release file is parsed and no index download is started, and
\* update_db returns the error of the first such result.
C9_Stage1Fatal ==
    /\ ~hr_sources(cfg).ok =>
          /\ s1issued = 0 /\ NoStage2
          /\ upc \in {"start", "done"}
          /\ upc = "done" => result = RErr("UnsupportedProtocol", 0)
    /\ FirstFatal # 0 =>
          /\ NoStage2
          /\ upc \in {"stage1", "scan", "lookup", "done"}
          /\ upc = "done" =>
                /\ ~result.ok
                /\ result.at = fetched[FirstFatal].task
                /\ result.err \in Stage1Errors(fetched[FirstFatal])

\* the release of one entry was fetched, the download of the other failed
C9_Witness ==
    /\ upc = "done" /\ Len(fetched) = 2
    /\ fetched[1].ok /\ fetched[2].err = "Reqwest"
    /\ result = RErr("Reqwest", fetched[2].task)

\* the source an attempt under way works on: the transport that was
\* dispatched and the url the call reads
Attempted(p) ==
    [source_type |-> IF pc[p] \in HttpPcs THEN "Http" ELSE "Local",
     url |-> PositionUrl(Cur(p), entry[p])]

\* C11: the k-th attempt of a plan works on the k-th source of the plan in
\* source-type order (every Local source before every Http source, sources
\* of one type in listed order): its transport and its url are those of
\* that source.
C11_TypeOrder ==
    \A p \in Plans : Running(p) => Attempted(p) = Sorted(p)[i[p]]

\* the counts 0, 1, ..., n-1 in order
CountsUpTo(n) == [k \in 1..n |-> k - 1]

\* C12: the retry count belongs to one source: the ChecksumMismatchRetry
\* events of the current source carry 0, 1, ... in order, one per retry,
\* at most retry_times of them, and the source is sent at most one GET per
\* attempt; whenever the plan moves to another source the count starts at 0
\* again, with no event and no GET yet, whatever the earlier sources used up.
C12_RetryPerSource ==
    /\ [](\A p \in Plans :
            /\ retries[p] = CountsUpTo(times[p])
            /\ times[p] <= RetryTimes
            /\ src_gets[p] <= times[p] + 1
            /\ (pc[p] = "done" /\ last[p].err = "ChecksumMisMatch")
                  => (times[p] = RetryTimes /\ exhausted[p]))
    /\ [][\A p \in Plans :
            i'[p] # i[p] => /\ times'[p] = 0 /\ retries'[p] = <<>>
                            /\ src_gets'[p] = 0]_vars

\* after the first Http source used up its retries, the second one is in
\* its last attempt, having been retried retry_times times
C12_Witness ==
    \E p \in Plans :
        /\ i[p] = 2 /\ exhausted[p] /\ prev_get[p]
        /\ pc[p] = "body" /\ times[p] = RetryTimes
        /\ src_gets[p] = RetryTimes + 1
        /\ retries[p] = CountsUpTo(RetryTimes)

\* the call of http_download or download_local that ended the plan took one
\* of the paths C13 names: a transfer, a cache hit or a local copy (Ok), an
\* error status (NotFound), a checksum mismatch
NamedPath(p) ==
    pc[p] = "done" /\ (last[p].ok \/ last[p].err \in {"NotFound", "ChecksumMisMatch"})

\* C13: in the events of an attempt no ProgressInc comes before NewProgress,
\* and the last event of the attempt is ProgressDone, on the transfer,
\* cache-hit, error-status, checksum-mismatch and local-copy paths.
C13_EventOrder ==
    \A p \in Plans :
        NamedPath(p) => (~att[p].early_inc /\ att[p].last_ev = "ProgressDone")

\* the effective concurrency C14 states: the configured limit clamped into
\* 1..=16, and 4 when none is configured
Clamped(l) ==
    IF ~l.some THEN 4 ELSE IF l.val < 1 THEN 1 ELSE IF l.val > 16 THEN 16 ELSE l.val

\* C14: the number of tasks in flight is at most the effective concurrency,
\* and a batch that has not returned can always take a step, for every
\* configured limit.
C14_BoundedParallelism ==
    /\ inflight <= Clamped(limit)
    /\ collected \/ ENABLED BatchNext

\* the indexes update_db selected for the entry whose batch is running
Selected ==
    Handle([is_flat |-> pin.is_flat, components |-> pin.components],
           pout.checksums, arch)
InBatch == upc = "batch" /\ issued[res_2[stage_at].count + 1] = Len(Selected)
TypesOf(h) == {h[k].file_type : k \in 1..Len(h)}
NamesOf(h) == {h[k].name : k \in 1..Len(h)}

\* C15: the destinations of the plans of one batch are pairwise distinct.
C15_DistinctDestinations ==
    InBatch =>
        \A a, b \in 1..Len(Selected) :
            a # b => NotCompressFilename(Selected[a].name)
                        # NotCompressFilename(Selected[b].name)

\* the entries of the parsed table that belong to the components of the
\* entry and have one of the kinds ts
OfKinds(ts) ==
    {pout.checksums[k].name : k \in
        {m \in 1..Len(pout.checksums) :
            /\ pout.checksums[m].file_type \in ts
            /\ pout.checksums[m].name.first \in pin.components}}

C17_ExtractedPlaintext ==
    (xpc = "done" /\ xres.ok /\ xplan.extract /\ xplan.ext \in {"gz", "xz", "bz2"}) =>
        /\ OnDisk(xplan, xraw) = xplan.plain
        /\ xfed = Served(xplan)
        /\ xfed = Published(xplan)

\* C19: FileName::new yields a name without '/', and two distinct urls get
\* distinct names.
C19_EscapeInjective ==
    (name_a.ok /\ name_b.ok) =>
        /\ \A k \in 1..Len(name_a.name) : name_a.name[k] # "/"
        /\ url_a # url_b => name_a.name # name_b.name

\* a plan with http sources only whose destination file is the complete file
\* of the unchanged remote, before anything was requested for it
HttpOnly(p) == \A k \in 1..Len(entry[p].source) : entry[p].source[k].source_type = "Http"
SecondRun(p) ==
    /\ HttpOnly(p)
    /\ file[p] = File(GoodBody)
    /\ pc[p] # "done"
    /\ times[p] = 0 /\ nfail[p] = 0
    /\ src_gets[p] = 0 /\ ~prev_get[p]

\* C18: a refresh run again after a successful one, the remote unchanged,
\* issues no GET for any plan, with or without an expected checksum; every
\* plan ends as a cache hit and emits one ProgressDone.
C18_Idempotent ==
    [][\A p \in Plans :
          SecondRun(p) =>
              /\ src_gets'[p] = src_gets[p]
              /\ pc'[p] = "done" =>
                    /\ res'[p].ok /\ ~res'[p].wrote
                    /\ att'[p].dones = 1]_vars

\* C20: for a plan that succeeded at its first attempt, the bytes of its
\* ProgressInc events equal the bytes it added to the global counter, net of
\* rollbacks.
C20_PlanBytesEqualGlobal ==
    \A p \in Plans :
        (pc[p] = "done" /\ res[p].ok /\ times[p] = 0 /\ nfail[p] = 0) =>
            att[p].inc = att[p].added

\* the results of Stage 1 the loop of lines 263-297 has dealt with: those
\* before scan_at, and the one at scan_at when update_db returned on it
Scanned(m) ==
    \/ m < scan_at
    \/ m = scan_at /\ upc = "done" /\ stage_at = 0 /\ ~result.ok
FailedOn(m, e) ==
    m = scan_at /\ upc = "done" /\ stage_at = 0 /\ result = RErr(e, fetched[m].task)

\* C21 as stated: a NotFound of Stage 1 either drops the entry (closed
\* topic) or makes the refresh fail with NoInReleaseFile for that url.
C21_ClosedTopicAsStated ==
    \A m \in 1..Len(fetched) :
        (Scanned(m) /\ fetched[m].err = "NotFound") =>
            \/ fetched[m].task \in absorbed
            \/ FailedOn(m, "NoInReleaseFile")

\* C21: in a build with the closed-topics lookup (feature aosc), a NotFound
\* of Stage 1 either drops the entry, without error and with nothing parsed
\* or downloaded for it, or makes the refresh fail for that url with
\* NoInReleaseFile, or with the error of the lookup when the registry could
\* not be read; a refresh that succeeds has processed every entry that was
\* not dropped. Without the lookup a NotFound is returned as it is.
C21_ClosedTopic ==
    /\ \A m \in 1..Len(fetched) :
          (Scanned(m) /\ fetched[m].err = "NotFound") =>
              IF aosc
              THEN \/ fetched[m].task \in absorbed
                   \/ FailedOn(m, "NoInReleaseFile")
                   \/ FailedOn(m, "TopicsError")
              ELSE FailedOn(m, "NotFound")
    /\ \A n \in absorbed :
          /\ aosc
          /\ \E m \in 1..Len(fetched) :
                fetched[m].task = n /\ fetched[m].err = "NotFound" /\ m < scan_at
          /\ n \notin parsed /\ issued[n] = 0
          /\ ~result.ok => result.at # n
    /\ (upc = "done" /\ result.ok) => parsed = (1..Len(cfg)) \ absorbed

\* one entry was dropped as a closed topic, the other one was refreshed
C21_Witness ==
    /\ upc = "done" /\ result.ok
    /\ absorbed # {} /\ parsed # {}

C23_FlatXorComponents ==
    /\ \A n \in 1..Len(cfg) :
          LET v == cfg[n]
              o == OmaSourceEntryNew(v)
          IN  /\ o.ok <=> /\ v.proto \in {"http", "https", "file"}
                          /\ ~(v.components = {} /\ v.suite # "/")
              /\ o.ok =>
                    /\ o.is_flat # (o.components # {})
                    /\ o.is_flat <=> (v.components = {} /\ v.suite = "/")
                    /\ o.components = v.components
                    /\ o.inrelease_path =
                          IF o.is_flat THEN [base |-> "url", file |-> "Release"]
                          ELSE [base |-> "dist_path", file |-> "InRelease"]
    /\ (upc # "start" /\ \E n \in 1..Len(cfg) :
            cfg[n].proto \notin {"http", "https", "file"}
                \/ (cfg[n].components = {} /\ cfg[n].suite # "/")) =>
          /\ upc = "done" /\ ~result.ok /\ s1issued = 0

\* update_db refreshed an entry with components whose suite is "/"
C23_Witness ==
    /\ upc = "done" /\ result.ok /\ parsed = {1}
    /\ cfg[1] = SlashSuite("https")
    /\ ~hr_sources(cfg).sources[1].is_flat

\* the step in which the final check of an attempt of plan p fails and
\* try_http_download goes on to the next attempt
RetryStep(p) == pc[p] = "body" /\ times'[p] = times[p] + 1

\* C24, the rollback and the event: when the final check of an attempt fails
\* and the attempt is retried, the counter loses exactly the bytes the
\* attempt transferred, the file is left as it is, and one
\* ChecksumMismatchRetry carrying the count of the attempt is emitted.
C24_RollbackAndEvent ==
    [][\A p \in Plans :
          RetryStep(p) =>
              /\ global_progress' = global_progress - loc[p].self_progress
              /\ file'[p] = file[p]
              /\ retries'[p] = Append(retries[p], times[p])
              /\ last'[p] = Err("ChecksumMisMatch")]_vars

\* C24: after a checksum failure and a retry, a second attempt that
\* transferred the right body succeeds: no plan ends with ChecksumMisMatch
\* after a retry while its destination file holds the expected body.
C24_RetrySucceeds ==
    \A p \in Plans :
        (pc[p] = "done" /\ res[p].err = "ChecksumMisMatch" /\ times[p] >= 1) =>
            file[p].data # GoodBody

\* a plan with allow_resume and a checksum whose attempt goes on from the
\* bytes the destination file held: the GET is about to be sent with a
\* Range, or the body is being appended to the old bytes
ResumeOffered(p) ==
    /\ pc[p] = "get" /\ loc[p].can_resume
    /\ entry[p].allow_resume /\ entry[p].hash.some /\ file[p].exists
Resumed(p) ==
    /\ pc[p] = "body" /\ loc[p].dest /\ loc[p].file_size > 0
    /\ entry[p].allow_resume /\ entry[p].hash.some
    /\ Len(file[p].data) = loc[p].file_size + loc[p].self_progress

\* C25: for a plan with allow_resume and a checksum whose destination holds
\* a part of the remote body, against a server that advertises ranges, the
\* attempt keeps the open file and the validator fed with the old bytes,
\* asks for the bytes from offset = size of the file, appends what it
\* receives, and, when the file then is the whole body, succeeds with the
\* counter increased by the length of the whole body.
C25_Resume ==
    /\ [](\A p \in Plans :
            /\ ResumeOffered(p) =>
                  /\ loc[p].dest
                  /\ loc[p].range = Len(file[p].data)
                  /\ loc[p].validator = SomeV(file[p].data)
            /\ Resumed(p) =>
                  /\ loc[p].validator = SomeV(file[p].data)
                  /\ att[p].added = Len(file[p].data))
    /\ [][\A p \in Plans :
            (Resumed(p) /\ file[p].data = ResumeBody
                /\ pc'[p] # "body" /\ last'[p].err # "Reqwest") =>
                  /\ pc'[p] = "done"
                  /\ res'[p] = OkSummary(TRUE, ListCount(p))
                  /\ file'[p] = File(ResumeBody)
                  /\ att'[p].added = Len(ResumeBody)
                  /\ times[p] = 0 => global_progress' = Len(ResumeBody)
                  /\ att'[p].gets = 1]_vars

\* the first byte was on disk, the second one was appended to it
C25_Witness ==
    /\ Resumed(1) /\ times[1] = 0
    /\ loc[1].file_size = 1 /\ loc[1].self_progress = 1
    /\ file[1].data = ResumeBody
    /\ global_progress = 2

\* the size of the destination file of a plan whose GET is about to be sent
OldFileSize(p) == IF file[p].exists THEN Len(file[p].data) ELSE 0
\* the bytes the check of the existing file added to the counter
CheckAdded(p) == IF file[p].exists /\ entry[p].hash.some THEN OldFileSize(p) ELSE 0
\* a Range header is sent: the server allows ranges and the plan resume
RangeSent(p) == pc[p] = "get" /\ loc[p].range >= 0

C27_SubtractedOnce ==
    \A p \in Plans :
        (pc[p] = "head" /\ file[p].exists
            /\ entry[p].hash.some /\ ~entry[p].allow_resume) =>
                att[p].added = 0

\* C28: in every attempt the url that is read is the url of the source whose
\* transport was dispatched, the i-th source of the sorted list, also when
\* the sort changed the listed order.
C28_UrlOfSortedSource ==
    \A p \in Plans :
        Running(p) => PositionUrl(Cur(p), entry[p]) = Sorted(p)[i[p]].url

\* C29: while the body of an HTTP attempt is written, and so at the final
\* check, the validator has been fed exactly the bytes the destination file
\* holds; after a truncation it holds no byte of the old file.
C29_ValidatorIsFile ==
    \A p \in Plans :
        (pc[p] = "body" /\ loc[p].validator.some) =>
            loc[p].validator.fed = file[p].data

\* C30: the global counter never goes below zero: every subtraction removes
\* only bytes that were added before.
C30_NeverBelowZero == global_progress >= 0

\* C31: a receiver that folds the events of all plans, adding n on
\* GlobalProgressInc(n) and assigning v on GlobalProgressSet(v), holds the
\* value of the shared counter after every event.
C31_ObserverIsCounter == observed = global_progress

\* the GET of plan p is answered with an error status in this step: 404, or
\* another status when it is the last source of the plan
StatusEnd(p) ==
    /\ pc[p] = "get"
    /\ \/ last'[p] = Err("NotFound")
       \/ /\ last'[p] = Err("Reqwest") /\ pc'[p] = "done"
          /\ att'[p].dones = att[p].dones + 1

\* C32: an HTTP attempt that ends with NotFound or another error status
\* leaves the destination file and the global counter as they were when the
\* attempt began: the attempt has changed the counter by nothing, and the
\* step that ends it changes neither.
C32_FailedAttemptFrame ==
    [][\A p \in Plans :
          StatusEnd(p) =>
              /\ att[p].added = 0
              /\ global_progress' = global_progress
              /\ file'[p] = file[p]]_vars

\* the checksum table the parser was given, and the classification of a
\* sequence of its lines
TableOf(in) == Tail(in.doc.sha256.lines)
Classified(ls) ==
    LET known == SelectSeq(ls, LAMBDA l : DistFileType(l.name) # "skip")
    IN  [k \in 1..Len(known) |-> ChecksumItem(known[k])]
\* the filter: the first path component is a configured component, the path
\* contains the architecture or "all", the second is not debian-installer
PassesFilter(n, components) ==
    n.first \in components /\ n.has_arch /\ n.second # "debian-installer"

\* C33: when at least one entry of the table passes the filter, the output
\* holds only entries that pass it; when none passes, the output is the
\* classification of the whole table.
C33_Filter ==
    (pout.ok /\ pin.doc.sha256.present) =>
        IF \E k \in 1..Len(TableOf(pin)) :
              PassesFilter(TableOf(pin)[k].name, pin.components)
        THEN \A m \in 1..Len(pout.checksums) :
                PassesFilter(pout.checksums[m].name, pin.components)
        ELSE pout.checksums = Classified(TableOf(pin))

\* the entries that are classified: the filtered table, or the whole table
\* when the filter keeps nothing
Surviving(in) ==
    LET c == SelectSeq(TableOf(in), LAMBDA l : KeepEntry(l.name, in.components))
    IN  IF c = <<>> THEN TableOf(in) ELSE c
\* the first matching rule, in the order BinContents, compressed Contents-*,
\* plain Contents-*, plain Packages, compressed Packages, Release
RuleOf(n) ==
    IF "BinContents" \in n.marks THEN "BinaryContents"
    ELSE IF "Contents-" \in n.marks /\ n.ext \in {"gz", "xz", "bz2"} THEN "CompressContents"
    ELSE IF "Contents-" \in n.marks /\ n.ext = "" THEN "Contents"
    ELSE IF "Packages" \in n.marks /\ n.ext = "" THEN "PackageList"
    ELSE IF "Packages" \in n.marks /\ n.ext \in {"gz", "xz", "bz2"} THEN "CompressPackageList"
    ELSE IF "Release" \in n.marks THEN "Release"
    ELSE "skip"
\* the value of a compressed kind is its compression algorithm: what follows
\* the '.' of the path, one of gz, xz, bz2
AlgoOf(n) ==
    IF RuleOf(n) \in {"CompressContents", "CompressPackageList"}
    THEN [some |-> TRUE, part |-> 1]
    ELSE [some |-> FALSE, part |-> 0]
RuleItems(ls) ==
    LET known == SelectSeq(ls, LAMBDA l : RuleOf(l.name) # "skip")
    IN  [k \in 1..Len(known) |->
            [name |-> known[k].name, file_type |-> RuleOf(known[k].name),
             value |-> AlgoOf(known[k].name)]]

\* C34: every surviving entry is classified by the first matching rule, an
\* entry matching none is skipped without error, and the value of a
\* compressed kind is its compression algorithm.
C34_Classification ==
    pout.ok => pout.checksums = RuleItems(Surviving(pin))

\* the non-empty lines of the SHA256 field, and what the parser makes of a
\* list of entries: the filter or the whole list, then the classification
NonEmptyLines(in) == SelectSeq(in.doc.sha256.lines, LAMBDA l : l.ntok # 0)
FilteredOf(ls, components) ==
    LET c == SelectSeq(ls, LAMBDA l : KeepEntry(l.name, components))
    IN  IF c = <<>> THEN ls ELSE c

\* C35: each non-empty line of the SHA256 field yields one entry and none
\* is dropped, empty lines are ignored, a line of one or two tokens fails
\* with the malformed-checksum error, and a release without the field fails.
C35_ChecksumLines ==
    pout # NotParsed =>
        LET ls == NonEmptyLines(pin)
        IN  IF ~pin.doc.sha256.present THEN pout = ParseErr("BadSha256Value")
            ELSE IF \E k \in 1..Len(ls) : ls[k].ntok < 3
                 THEN pout = ParseErr("BadChecksumEntry")
                 ELSE /\ pout.err # "BadChecksumEntry"
                      /\ pout.ok =>
                            pout.checksums = Classified(FilteredOf(ls, pin.components))

\* C36: for a non-flat repository a missing or unparsable Date fails with
\* BadInReleaseData; with a Date that is not in the future a missing
\* Valid-Until is accepted and an unparsable one fails with
\* BadInReleaseVaildUntil; a release in the future with an unparsable
\* Valid-Until reports the in-future error.
C36_DateFields ==
    (pout # NotParsed /\ Reaches(pin) /\ ~pin.is_flat) =>
        LET d == pin.doc.date
            v == pin.doc.valid_until
        IN  /\ (~d.present \/ ~d.parsable) => pout = ParseErr("BadInReleaseData")
            /\ (d.present /\ d.parsable /\ pin.now >= d.t) =>
                  /\ ~v.present => pout.err \notin DateErrors
                  /\ (v.present /\ ~v.parsable)
                        => pout = ParseErr("BadInReleaseVaildUntil")
            /\ (d.present /\ d.parsable /\ pin.now < d.t /\ v.present /\ ~v.parsable)
                  => pout = ParseErr("EarlierSignature")

\* a release in the future whose Valid-Until does not parse was parsed
C36_Witness ==
    /\ pout = ParseErr("EarlierSignature") /\ ~pin.is_flat
    /\ pin.doc.valid_until = BadDate /\ pin.doc.date.parsable

\* what the claim says of date_hack apart from idempotence: the token UTC
\* becomes +0000, the single-digit hour of H:MM:SS is zero-padded, the
\* tokens are joined by one blank, a compliant date is returned unchanged,
\* and parse_date gives a tolerated form the instant of its compliant form
DateTolerance ==
    /\ Len(d_hack.toks) = Len(d_in.toks)
    /\ \A k \in 1..Len(d_in.toks) :
          /\ d_in.toks[k] = <<"UTC">> => d_hack.toks[k] = <<"+0000">>
          /\ (Len(d_in.toks[k]) = 3 /\ d_in.toks[k][1] = "9")
                => d_hack.toks[k] = <<"09", d_in.toks[k][2], d_in.toks[k][3]>>
    /\ \A k \in 1..Len(d_hack.gaps) : d_hack.gaps[k] = 1
    /\ ParseFromRfc2822(d_in).ok => d_hack = d_in
    /\ ParseFromRfc2822(d_hack).ok =>
          (d_parsed.ok /\ d_parsed = parse_date(d_hack))
\* UTC stands before the first ':' of a token
UtcBeforeColon(s) ==
    \E k \in 1..Len(s.toks) : Len(s.toks[k]) > 1 /\ s.toks[k][1] = "UTC"

Called(c) == \E k \in 1..Len(calls) : calls[k] = c

\* C38: the installation starts only after every download succeeded: when a
\* plan of download_pkgs failed, commit has returned FailedToDownload with
\* the count and the list of the errors, the apt lock was never taken and
\* do_install never called; a dry run returns before any download.
C38_InstallAfterDownloads ==
    /\ failed # <<>> =>
          /\ cpc = "done"
          /\ commit_res = [ok |-> FALSE, err |-> "FailedToDownload",
                           count |-> Len(failed), errors |-> failed]
          /\ ~Called("apt_lock") /\ ~Called("get_archives") /\ ~Called("do_install")
          /\ apt = Unlocked
    /\ (Called("apt_lock") \/ Called("do_install")) =>
          /\ Called("download_pkgs")
          /\ failed = <<>> /\ success = pkg_list
    /\ dry_run => (~Called("download_pkgs") /\ ~Called("do_install"))

\* two of three plans failed and commit has returned
C38_Witness ==
    /\ cpc = "done" /\ pkg_list = 3 /\ success = 1
    /\ failed = <<"NotFound", "ChecksumMisMatch">>
    /\ commit_res.err = "FailedToDownload" /\ commit_res.count = 2

\* C39: when commit has returned the apt lock is not held, whether
\* get_archives failed, do_install failed or both succeeded; the lock is
\* held only between its acquisition and those returns, and it is never
\* released while it is not held.
C39_LockReleased ==
    /\ cpc = "done" => ~apt.held
    /\ apt.held => (Called("apt_lock") /\ cpc \in {"get_archives", "do_install"})
    /\ cpc \in {"get_archives", "do_install"} => apt.held
    /\ ~apt.stray

\* do_install failed after the lock was taken, and commit has returned
C39_Witness ==
    /\ cpc = "done" /\ commit_res.err = "do_install"
    /\ Called("apt_lock") /\ Called("do_install")
    /\ apt = Unlocked

====
